---- MODULE Spec2Model ----
(***************************************************************************)
(* Model of the Megaplan -> OpenProject task synchronisation               *)
(* (openproject_megaplan_sync): the identity store (MappingStore), the     *)
(* payload translation (TaskMapper) and the reconciliation orchestrator    *)
(* (TaskSyncService), together with the two remote systems as far as the   *)
(* orchestrator observes them.                                             *)
(*                                                                         *)
(* sync_comments and sync_attachments are on, as by default. Under Spec    *)
(* and SpecTime the tasks of the source have no responsible user, no       *)
(* comment and no attachment; under SpecItems they have them. SpecStore    *)
(* is the store alone, called directly.                                    *)
(*                                                                         *)
(* SpecOrder runs _order_tasks step by step on every small batch and       *)
(* SpecPayload applies to_openproject_payload to every pair of ids.        *)
(* SpecAuth runs under valid, invalid and absent credentials, SpecZero     *)
(* against a target that numbers its work packages from 0, SpecPages over  *)
(* listings that repeat a task, SpecProjects with failing calls while      *)
(* time passes.                                                            *)
(***************************************************************************)
EXTENDS Integers, Sequences, FiniteSets, TLC

\* ------------------------------------------------------------------ bounds

\* The clock runs over 0..MaxClock.
MaxClock == 2

\* The target system hands out at most MaxTargetId work package ids.
MaxTargetId == 8

\* The source data is changed at most MaxEdits times.
MaxEdits == 1

\* At most MaxRuns runs of the synchronisation are started.
MaxRuns == 2

\* At most MaxStoreOps calls are made on the store directly.
MaxStoreOps == 3

\* ------------------------------------------------------- values and config

\* Python's None where an Optional[int] or Optional[datetime] is expected.
None == -1

\* Python's truth value of an Optional[int]: None and 0 are false.
Truthy(x) == x # None /\ x # 0

\* A task without parent: map_task turns a missing or empty parent into None.
NoParent == ""

\* config.projects, in configuration order (megaplan_id of each mapping).
Projects == <<"p1", "p2">>

ProjectIds == {Projects[i] : i \in 1..Len(Projects)}

\* The task ids of the source system, and the project each belongs to.
SourceIds == {"1", "2", "3", "4"}

ProjectOf(t) == IF t = "4" THEN "p2" ELSE "p1"

\* A parent id that names no task of the source system.
ExtParent == "9"

\* Every key the task namespace of the store may be asked for.
TaskKeys == SourceIds \cup {ExtParent}

\* The parent links of the source data: three shapes.
\*   chain 3 -> 2 -> 1, and 4 below 1 (a parent in another project);
\*   1 below an unknown parent, 2 and 3 below 1;
\*   chain 1 -> 2 -> 3 (children carry the smaller ids), 4 below an unknown parent.
ParentShapes ==
    { [t \in SourceIds |-> CASE t = "1" -> NoParent [] t = "2" -> "1"
                             [] t = "3" -> "2" [] OTHER -> "1"],
      [t \in SourceIds |-> CASE t = "1" -> ExtParent [] t = "2" -> "1"
                             [] t = "3" -> "1" [] OTHER -> NoParent],
      [t \in SourceIds |-> CASE t = "1" -> "2" [] t = "2" -> "3"
                             [] t = "3" -> NoParent [] OTHER -> ExtParent] }

ZeroStats == [created |-> 0, updated |-> 0, skipped |-> 0,
              attachments |-> 0, comments |-> 0]

\* A task without responsible user: map_task leaves assignee_id None.
NoUser == ""

\* The user ids and comment ids of the source system.
UserIds == {"u1", "u2"}

CommentIds == {"c1", "c2"}

\* The id the target system knows the user under (found or created by
\* ensure_user from the user's login or e-mail).
OpenUserId(u) == IF u = "u1" THEN 11 ELSE 12

\* The characters of an id: task ids are one digit, comment ids the letter c
\* and a digit.
Chars(id) ==
    IF id \in SourceIds THEN <<id>>
    ELSE IF id = "c1" THEN <<"c", "1">> ELSE <<"c", "2">>

\* comment_key made of the comment's id alone.
CommentKey_by_comment(task_id, comment_id) == <<":">> \o Chars(comment_id)

\* comment_key = f"{task.id}:{comment.id}": the characters of the task id, a
\* colon, the characters of the comment id.
CommentKey(task_id, comment_id) == Chars(task_id) \o <<":">> \o Chars(comment_id)

CommentKeys == {CommentKey(t, c) : t \in SourceIds, c \in CommentIds}

\* config.sync.attachment_max_mb, and the size limit it gives in bytes.
attachment_max_mb == 200

MaxBytes == attachment_max_mb * 1024 * 1024

\* The attachments of the source system: one above the limit, one exactly at it.
BigFile == [id |-> "f1", filename |-> "big.bin", size |-> MaxBytes + 1]

EdgeFile == [id |-> "f2", filename |-> "edge.bin", size |-> MaxBytes]

FileIds == {"f1", "f2"}

\* The tables of the store that map identifiers, and the keys and values the
\* store is called with directly.
Tables == {"tasks", "users", "attachments", "comments"}

StoreKeys == {"1", "2"}

StoreValues == {1, 2}

VARIABLES
    parent,      \* source: task id -> parent id (NoParent if none)
    src,         \* source: task id -> updated_at, None while the task does not exist
    clock,       \* the wall clock read by datetime.utcnow()
    taskMap,     \* store, table tasks: megaplan id -> openproject id, None if no row
    watermark,   \* store, table sync_state: project id -> last_sync, None if no row
    created,     \* target: created[i] is the source task work package i was created for
    log,         \* target: the writes received during the current run, in order, each
                 \* with whether the task's parent was in the batch and in the store
    pc,          \* position of the run: idle, project, task, resolved, commit,
                 \* comments, attachments, upload
    mode,        \* initial (initial_migration) or incremental (incremental_sync)
    dryRun,      \* config.sync.dry_run of the run
    since,       \* the since argument of incremental_sync
    cur,         \* index into Projects of the project being processed
    batch,       \* keys of the dict tasks, in insertion order
    queue,       \* the tasks of ordered_tasks not yet processed
    pending,     \* the write made for the head of queue, awaiting its upsert
    stats,       \* SyncStats of the project being processed
    results,     \* the local dict results of the run
    outcome,     \* how the last run ended: none, ok, error, killed
    returned,    \* what the caller of the last run received
    fetchedAt,   \* project id -> clock when its last fetch began
    wmAtStart,   \* the watermarks when the current run started
    mappedAtStart, \* the task ids that had a truthy mapping when the run started
    edits,       \* the number of changes made to the source data so far
    runs,        \* the number of runs started so far
    streak,      \* completed non-dry full migrations in a row over unchanged source data
    tainted,     \* the source data changed since the current run started
    assignee,    \* source: task id -> id of the responsible user (NoUser if none)
    comments,    \* source: task id -> the ids of the task's comments, as get_comments lists them
    files,       \* source: task id -> the task's attachments (id, filename, size), as get_files lists them
    userMap,     \* store, table users: megaplan user id -> openproject id, None if no row
    commentMap,  \* store, table comments: megaplan_key -> openproject id, None if no row
    attachMap,   \* store, table attachments: megaplan id -> openproject id, None if no row
    calls,       \* the remote calls made for users, comments and attachments so far, in
                 \* order, each with its success and what the store held for its key
    idx,         \* position of the comment or attachment loop within the task's list
    tmpFiles,    \* the file names present in config.sync.tmp_dir
    rows,        \* the rows of the four mapping tables of the SQLite file
    lastPut,     \* (table, key) -> the value of the latest _upsert (None if there was
                 \* none) and the number of _upserts made
    storeOp,     \* the latest call made on the store and what it returned
    storeOps,    \* the number of calls made on the store directly
    credentials, \* config.megaplan username and password: valid, invalid or absent
    idBase,      \* target: the id it gives to the first work package it creates
    raw,         \* raw_tasks of the project being processed: the records as fetched,
                 \* each with the task id and which revision of the task it shows
    visited,     \* _order_tasks: the keys of the dict visited
    ordered,     \* _order_tasks: the list ordered
    stack,       \* _order_tasks: the calls of visit in progress, innermost last
    given,       \* the arguments of a call of to_openproject_payload
    built,       \* what that call returned
    requested,   \* the projects for which this run sent a request for a page of tasks
    prev         \* the run before this one: its dry_run setting and how it ended

\* What the runs keep about users, comments and attachments.
itemVars == <<assignee, comments, files, userMap, commentMap, attachMap, calls, idx, tmpFiles>>

\* The store seen as its tables' rows, and the calls made on it directly.
storeVars == <<rows, lastPut, storeOp, storeOps>>

\* The configured credentials and the target's numbering.
envVars == <<credentials, idBase>>

\* The locals of _order_tasks run on its own.
orderVars == <<visited, ordered, stack>>

\* to_openproject_payload called on its own.
payloadVars == <<given, built>>

vars == <<parent, src, clock, taskMap, watermark, created, log, pc, mode, dryRun,
          since, cur, batch, queue, pending, stats, results, outcome, returned,
          fetchedAt, wmAtStart, mappedAtStart, edits, runs, streak, tainted,
          itemVars, storeVars, envVars, orderVars, payloadVars, prev, raw, requested>>

\* ------------------------------------------------------------ MappingStore

\* MappingStore._get on one table: the stored openproject_id, None if no row.
Store_get(table, key) == table[key]

\* MappingStore._upsert on one table: insert, or overwrite on conflict.
Store_upsert(table, key, value) == [table EXCEPT ![key] = value]

\* get_task that finds no row.
get_task_miss(megaplan_id) == None

get_task(megaplan_id) == Store_get(taskMap, megaplan_id)

\* upsert_task with the write left out.
upsert_task_dropped(megaplan_id, openproject_id) == taskMap

upsert_task(megaplan_id, openproject_id) == Store_upsert(taskMap, megaplan_id, openproject_id)

get_user(megaplan_id) == Store_get(userMap, megaplan_id)

upsert_user(megaplan_id, openproject_id) == Store_upsert(userMap, megaplan_id, openproject_id)

get_attachment(megaplan_id) == Store_get(attachMap, megaplan_id)

upsert_attachment(megaplan_id, openproject_id) ==
    Store_upsert(attachMap, megaplan_id, openproject_id)

get_comment(megaplan_key) == Store_get(commentMap, megaplan_key)

\* upsert_comment with the write left out.
upsert_comment_dropped(megaplan_key, openproject_id) == commentMap

upsert_comment(megaplan_key, openproject_id) ==
    Store_upsert(commentMap, megaplan_key, openproject_id)

get_last_sync(project_id) == watermark[project_id]

set_last_sync(project_id, moment) == [watermark EXCEPT ![project_id] = moment]

\* The same store as the rows of its tables. A row of a mapping table is
\* (table, key, openproject_id, synced_at).
RowsOf(rs, table, key) == {r \in rs : r.table = table /\ r.key = key}

\* MappingStore._get on the rows: SELECT openproject_id ... WHERE key = ?,
\* fetchone.
Rows_get(rs, table, key) ==
    IF RowsOf(rs, table, key) = {} THEN None
    ELSE (CHOOSE r \in RowsOf(rs, table, key) : TRUE).openproject_id

\* _upsert as a plain INSERT into a table without primary key.
Rows_upsert_insert(rs, table, key, value, now) ==
    rs \cup {[table |-> table, key |-> key, openproject_id |-> value, synced_at |-> now]}

\* _upsert on one table shared by the four kinds: the conflict is on the key alone.
Rows_upsert_shared(rs, table, key, value, now) ==
    {r \in rs : r.key # key}
       \cup {[table |-> table, key |-> key, openproject_id |-> value, synced_at |-> now]}

\* MappingStore._upsert on the rows: INSERT ... ON CONFLICT(key) DO UPDATE SET
\* openproject_id, synced_at; the key column is the table's primary key.
Rows_upsert(rs, table, key, value, now) ==
    {r \in rs : ~(r.table = table /\ r.key = key)}
       \cup {[table |-> table, key |-> key, openproject_id |-> value, synced_at |-> now]}

\* -------------------------------------------------------------- TaskMapper

\* config.openproject.default_user_id: not configured.
default_user_id == None

\* TaskSyncService._resolve_user for a task without assignee.
resolve_user_none == default_user_id

\* to_openproject_payload without the guard on the parent link: an unresolved
\* parent is sent as a link to work package 0, which does not exist.
to_openproject_payload_unguarded(task_id, parent_openproject_id, assignee_openproject_id) ==
    [subject  |-> task_id,
     assignee |-> IF Truthy(assignee_openproject_id) THEN assignee_openproject_id ELSE None,
     parent   |-> IF parent_openproject_id # None THEN parent_openproject_id ELSE 0]

\* TaskMapper.to_openproject_payload: the links of the payload. A link is
\* included only for a truthy target id; None stands for "no such link".
to_openproject_payload(task_id, parent_openproject_id, assignee_openproject_id) ==
    [subject  |-> task_id,
     assignee |-> IF Truthy(assignee_openproject_id) THEN assignee_openproject_id ELSE None,
     parent   |-> IF Truthy(parent_openproject_id) THEN parent_openproject_id ELSE None]

\* ------------------------------------------------------------ source fetch

\* All orders in which the elements of S can be listed.
Perms(S) ==
    {f \in [1..Cardinality(S) -> S] : \A i, j \in 1..Cardinality(S) : f[i] = f[j] => i = j}

\* The tasks MegaplanClient.list_tasks reports for a project: those that exist
\* and, with updated_after given, were updated after it.
Matching(project_id, updated_since) ==
    {t \in SourceIds : /\ ProjectOf(t) = project_id
                       /\ src[t] # None
                       /\ (updated_since = None \/ src[t] > updated_since)}

\* MegaplanClient.iter_project_tasks: the pages, in whatever order the source lists them.
iter_project_tasks(project_id, updated_since) == Perms(Matching(project_id, updated_since))

\* The keys of the dict built by "tasks[task.id] = task" over raw_tasks: a key
\* keeps the position of its first occurrence.
RECURSIVE DictKeys(_)
DictKeys(ids) ==
    IF ids = <<>> THEN <<>>
    ELSE LET front == DictKeys(SubSeq(ids, 1, Len(ids) - 1))
             last  == ids[Len(ids)]
         IN  IF \E i \in 1..Len(front) : front[i] = last THEN front ELSE Append(front, last)

\* The pages of a listing that repeats a task: a task that moves to a later
\* page while the pages are read is listed a second time.
iter_project_tasks_overlapping(project_id, updated_since) ==
    LET S == Matching(project_id, updated_since)
    IN  {s \in [1..Cardinality(S) + 1 -> S] : \A t \in S : \E i \in DOMAIN s : s[i] = t}

\* The records of a listing: a record shows the task as it is when its page is
\* served, revision 1 where the task is listed first and the next revision
\* each time it is listed again.
Records(ids) ==
    [i \in 1..Len(ids) |->
        [id |-> ids[i], rev |-> 1 + Cardinality({j \in 1..(i - 1) : ids[j] = ids[i]})]]

\* The ids of the records of raw_tasks, in order.
Ids(records) == [i \in 1..Len(records) |-> records[i].id]

\* The places of raw_tasks that hold a record of task_id.
PlacesOf(task_id) == {i \in 1..Len(raw) : raw[i].id = task_id}

\* task_record that keeps the first record seen for an id.
task_record_first(task_id) ==
    raw[CHOOSE i \in PlacesOf(task_id) : \A j \in PlacesOf(task_id) : i <= j].rev

\* tasks[task_id] after "tasks[task.id] = task" over raw_tasks: each later
\* record of an id replaces the earlier one. The revision that record shows.
task_record(task_id) ==
    raw[CHOOSE i \in PlacesOf(task_id) : \A j \in PlacesOf(task_id) : i >= j].rev

\* ------------------------------------------------------------ _order_tasks

Elems(s) == {s[i] : i \in 1..Len(s)}

\* visit(task_id) of _order_tasks on the state st = (visited, ordered).
RECURSIVE visit(_, _, _)
\* visit that appends the task before it visits the parent.
visit_append_first(keys, task_id, st) ==
    IF task_id \in st.visited THEN st
    ELSE LET marked == [visited |-> st.visited \cup {task_id},
                        ordered |-> Append(st.ordered, task_id)]
         IN  IF parent[task_id] # NoParent /\ parent[task_id] \in Elems(keys)
             THEN visit(keys, parent[task_id], marked)
             ELSE marked

visit(keys, task_id, st) ==
    IF task_id \in st.visited THEN st
    ELSE LET marked == [st EXCEPT !.visited = @ \cup {task_id}]
             up     == IF parent[task_id] # NoParent /\ parent[task_id] \in Elems(keys)
                       THEN visit(keys, parent[task_id], marked)
                       ELSE marked
         IN  [up EXCEPT !.ordered = Append(@, task_id)]

RECURSIVE visit_all(_, _, _)
visit_all(keys, i, st) ==
    IF i > Len(keys) THEN st ELSE visit_all(keys, i + 1, visit(keys, keys[i], st))

\* TaskSyncService._order_tasks: the ids of the ordered tasks.
order_tasks(keys) == visit_all(keys, 1, [visited |-> {}, ordered |-> <<>>]).ordered

\* ------------------------------------------------------------------- state

EmptyResults == [p \in {} |-> ZeroStats]

NoPending == [op |-> "none", open_id |-> None]

NoStoreOp == [op |-> "none", table |-> "", key |-> "", value |-> None]

\* There was no run before this one.
NoRun == [dry |-> FALSE, outcome |-> "none"]

\* No call of to_openproject_payload has been made, or none has returned.
NoGiven == [task |-> "", parent |-> None, assignee |-> None]

NoPayload == [subject |-> "", assignee |-> None, parent |-> None]

\* Valid credentials, a target that numbers its work packages from 1, and no
\* call of to_openproject_payload on its own.
OrdinaryEnv == credentials = "valid" /\ idBase = 1 /\ given = NoGiven

\* The state after construction, the source data and the call in progress
\* apart: an empty store, an untouched target, an empty tmp_dir.
InitFields ==
    /\ clock = 0
    /\ taskMap = [k \in TaskKeys |-> None]
    /\ watermark = [p \in ProjectIds |-> None]
    /\ created = <<>>
    /\ log = <<>>
    /\ mode = "initial"
    /\ dryRun = FALSE
    /\ since = None
    /\ cur = 1
    /\ pending = NoPending
    /\ stats = ZeroStats
    /\ results = EmptyResults
    /\ outcome = "none"
    /\ returned = [has |-> FALSE, value |-> EmptyResults]
    /\ fetchedAt = [p \in ProjectIds |-> None]
    /\ wmAtStart = [p \in ProjectIds |-> None]
    /\ mappedAtStart = {}
    /\ edits = 0
    /\ runs = 0
    /\ streak = 0
    /\ tainted = FALSE
    /\ userMap = [u \in UserIds |-> None]
    /\ commentMap = [k \in CommentKeys |-> None]
    /\ attachMap = [f \in FileIds |-> None]
    /\ calls = <<>>
    /\ idx = 1
    /\ tmpFiles = {}
    /\ rows = {}
    /\ lastPut = [tk \in Tables \X StoreKeys |-> [value |-> None, puts |-> 0]]
    /\ storeOp = NoStoreOp
    /\ storeOps = 0
    /\ raw = <<>>
    /\ requested = {}
    /\ prev = NoRun
    /\ visited = {}
    /\ ordered = <<>>
    /\ stack = <<>>

\* The state after construction, the source data apart: no run started.
InitBase ==
    /\ InitFields
    /\ pc = "idle"
    /\ batch = <<>>
    /\ queue = <<>>
    /\ built = NoPayload

\* Source data of tasks 1, 2 and 4 without responsible user, comment or
\* attachment; task 3 does not exist yet.
Init ==
    /\ InitBase
    /\ OrdinaryEnv
    /\ parent \in ParentShapes
    /\ src = [t \in SourceIds |-> IF t = "3" THEN None ELSE 0]
    /\ assignee = [t \in SourceIds |-> NoUser]
    /\ comments = [t \in SourceIds |-> <<>>]
    /\ files = [t \in SourceIds |-> <<>>]

\* ------------------------------------------------------------- environment

\* Time passes.
Tick ==
    /\ clock < MaxClock
    /\ clock' = clock + 1
    /\ UNCHANGED <<parent, src, taskMap, watermark, created, log, pc, mode, dryRun,
                   since, cur, batch, queue, pending, stats, results, outcome,
                   returned, fetchedAt, wmAtStart, mappedAtStart, edits, runs, streak, tainted>>
    /\ UNCHANGED <<itemVars, storeVars>>
    /\ UNCHANGED <<envVars, orderVars, payloadVars, prev, raw, requested>>

\* A user of the source system creates or changes task t: its updated_at is now.
SourceEdit(t) ==
    /\ edits < MaxEdits
    /\ src[t] # clock
    /\ edits' = edits + 1
    /\ src' = [src EXCEPT ![t] = clock]
    /\ tainted' = TRUE
    /\ streak' = 0
    /\ UNCHANGED <<parent, clock, taskMap, watermark, created, log, pc, mode, dryRun,
                   since, cur, batch, queue, pending, stats, results, outcome,
                   returned, fetchedAt, wmAtStart, mappedAtStart, runs>>
    /\ UNCHANGED <<itemVars, storeVars>>
    /\ UNCHANGED <<envVars, orderVars, payloadVars, prev, raw, requested>>

\* ------------------------------------------------------------ orchestrator

\* authenticate that never raises.
authenticate_skipped == TRUE

\* MegaplanClient.authenticate returns: username and password are both set.
\* Whether the source accepts them is not looked at.
authenticate_ok == credentials # "absent"

\* Raise that hands the results gathered so far to the caller.
Raise_partial(how) ==
    /\ pc' = "idle"
    /\ outcome' = how
    /\ returned' = [has |-> TRUE, value |-> results]
    /\ results' = [p \in {} |-> ZeroStats]
    /\ pending' = [op |-> "none", open_id |-> None]

\* The exception leaves initial_migration / incremental_sync: the locals are
\* gone and the caller receives no value.
Raise(how) ==
    /\ pc' = "idle"
    /\ outcome' = how
    /\ returned' = [has |-> FALSE, value |-> EmptyResults]
    /\ results' = EmptyResults
    /\ pending' = NoPending

\* StartRun that begins with the project configured last.
StartRun_last_first(m, d, s) ==
    /\ pc = "idle"
    /\ runs < MaxRuns
    /\ pc' = "project"
    /\ mode' = m
    /\ dryRun' = d
    /\ since' = s
    /\ cur' = Len(Projects)
    /\ results' = EmptyResults
    /\ log' = <<>>
    /\ batch' = <<>>
    /\ queue' = <<>>
    /\ pending' = NoPending
    /\ stats' = ZeroStats
    /\ outcome' = "none"
    /\ returned' = [has |-> FALSE, value |-> EmptyResults]
    /\ wmAtStart' = watermark
    /\ mappedAtStart' = {t \in SourceIds : Truthy(taskMap[t])}
    /\ tainted' = FALSE
    /\ fetchedAt' = [p \in ProjectIds |-> None]
    /\ runs' = runs + 1
    /\ idx' = 1
    /\ raw' = <<>>
    /\ requested' = {}
    /\ prev' = IF runs = 0 THEN NoRun ELSE [dry |-> dryRun, outcome |-> outcome]
    /\ UNCHANGED <<parent, src, clock, taskMap, watermark, created, edits, streak>>
    /\ UNCHANGED <<assignee, comments, files, userMap, commentMap, attachMap, calls,
                   tmpFiles, storeVars>>
    /\ UNCHANGED <<envVars, orderVars, payloadVars>>

\* initial_migration() or incremental_sync(since=s) is called with
\* config.sync.dry_run = d.
StartRun(m, d, s) ==
    /\ pc = "idle"
    /\ runs < MaxRuns
    /\ pc' = "project"
    /\ mode' = m
    /\ dryRun' = d
    /\ since' = s
    /\ cur' = 1
    /\ results' = EmptyResults
    /\ log' = <<>>
    /\ batch' = <<>>
    /\ queue' = <<>>
    /\ pending' = NoPending
    /\ stats' = ZeroStats
    /\ outcome' = "none"
    /\ returned' = [has |-> FALSE, value |-> EmptyResults]
    /\ wmAtStart' = watermark
    /\ mappedAtStart' = {t \in SourceIds : Truthy(taskMap[t])}
    /\ tainted' = FALSE
    /\ fetchedAt' = [p \in ProjectIds |-> None]
    /\ runs' = runs + 1
    /\ idx' = 1
    /\ raw' = <<>>
    /\ requested' = {}
    /\ prev' = IF runs = 0 THEN NoRun ELSE [dry |-> dryRun, outcome |-> outcome]
    /\ UNCHANGED <<parent, src, clock, taskMap, watermark, created, edits, streak>>
    /\ UNCHANGED <<assignee, comments, files, userMap, commentMap, attachMap, calls,
                   tmpFiles, storeVars>>
    /\ UNCHANGED <<envVars, orderVars, payloadVars>>

\* project_since that prefers the stored watermark to the since argument.
project_since_stored_first(project_id) ==
    IF mode = "initial" THEN None
    ELSE IF get_last_sync(project_id) # None THEN get_last_sync(project_id) ELSE since

\* The window start of the project: None for a full migration, else the
\* since argument or, without one, the stored watermark.
project_since(project_id) ==
    IF mode = "initial" THEN None
    ELSE IF since # None THEN since ELSE get_last_sync(project_id)

\* _sync_project up to ordered_tasks: authenticate, fetch, canonicalise, order.
FetchProject ==
    /\ pc = "project"
    /\ authenticate_ok
    /\ credentials = "valid"
    /\ LET p == Projects[cur] IN
       \E raw_tasks \in iter_project_tasks(p, project_since(p)) :
          /\ fetchedAt' = [fetchedAt EXCEPT ![p] = clock]
          /\ requested' = requested \cup {p}
          /\ raw' = Records(raw_tasks)
          /\ batch' = DictKeys(raw_tasks)
          /\ queue' = order_tasks(DictKeys(raw_tasks))
          /\ stats' = ZeroStats
          /\ pc' = "task"
    /\ UNCHANGED <<parent, src, clock, taskMap, watermark, created, log, mode, dryRun,
                   since, cur, pending, results, outcome, returned, wmAtStart,
                   mappedAtStart, edits, runs, streak, tainted>>
    /\ UNCHANGED <<itemVars, storeVars>>
    /\ UNCHANGED <<envVars, orderVars, payloadVars, prev>>

\* _sync_project up to the loop, the source listing a task on two pages.
FetchOverlapping ==
    /\ pc = "project"
    /\ authenticate_ok
    /\ credentials = "valid"
    /\ LET p == Projects[cur] IN
       \E raw_tasks \in iter_project_tasks_overlapping(p, project_since(p)) :
          /\ fetchedAt' = [fetchedAt EXCEPT ![p] = clock]
          /\ requested' = requested \cup {p}
          /\ raw' = Records(raw_tasks)
          /\ batch' = DictKeys(raw_tasks)
          /\ queue' = order_tasks(DictKeys(raw_tasks))
          /\ stats' = ZeroStats
          /\ pc' = "task"
    /\ UNCHANGED <<parent, src, clock, taskMap, watermark, created, log, mode, dryRun,
                   since, cur, pending, results, outcome, returned, wmAtStart,
                   mappedAtStart, edits, runs, streak, tainted>>
    /\ UNCHANGED <<itemVars, storeVars>>
    /\ UNCHANGED <<envVars, orderVars, payloadVars, prev>>

\* "self._megaplan.authenticate()" raises MegaplanAPIError: nothing is sent.
AuthFails ==
    /\ pc = "project"
    /\ ~authenticate_ok
    /\ Raise("error")
    /\ UNCHANGED <<parent, src, clock, taskMap, watermark, created, log, mode, dryRun,
                   since, cur, batch, queue, stats, fetchedAt, wmAtStart,
                   mappedAtStart, edits, runs, streak, tainted>>
    /\ UNCHANGED <<itemVars, storeVars>>
    /\ UNCHANGED <<envVars, orderVars, payloadVars, prev, raw, requested>>

\* The source answers the request for the first page with an error status, 401
\* for credentials it does not accept: MegaplanAPIError.
FetchFails ==
    /\ pc = "project"
    /\ authenticate_ok
    /\ requested' = requested \cup {Projects[cur]}
    /\ Raise("error")
    /\ UNCHANGED <<parent, src, clock, taskMap, watermark, created, log, mode, dryRun,
                   since, cur, batch, queue, stats, fetchedAt, wmAtStart,
                   mappedAtStart, edits, runs, streak, tainted>>
    /\ UNCHANGED <<itemVars, storeVars>>
    /\ UNCHANGED <<envVars, orderVars, payloadVars, prev, raw>>

\* parent_open_id that looks up the task's own id instead of its parent's.
parent_open_id_own(task_id) ==
    IF parent[task_id] # NoParent THEN get_task(task_id) ELSE None

\* The parent's target id as _sync_task looks it up.
parent_open_id(task_id) ==
    IF parent[task_id] # NoParent THEN get_task(parent[task_id]) ELSE None

\* The task's parent has a row in the task namespace of the store.
ParentMapped(task_id) ==
    parent[task_id] # NoParent /\ get_task(parent[task_id]) # None

\* NeedsLookup that does not consult the store.
NeedsLookup_uncached(task_id) == assignee[task_id] # NoUser

\* _resolve_user gets past its two early returns: the task has a responsible
\* user and the store has no truthy id for them.
NeedsLookup(task_id) ==
    assignee[task_id] # NoUser /\ ~Truthy(get_user(assignee[task_id]))

\* What _resolve_user returns for the task once any lookup has been made: the
\* default without a responsible user, the stored id if there is one (the
\* lookup stores the id ensure_user gave), else the default.
resolve_user(task_id) ==
    IF assignee[task_id] = NoUser THEN resolve_user_none
    ELSE IF Truthy(get_user(assignee[task_id])) THEN get_user(assignee[task_id])
    ELSE default_user_id

\* The payload _sync_task builds for the task.
task_payload(task_id) ==
    to_openproject_payload(task_id, parent_open_id(task_id), resolve_user(task_id))

\* WriteTurn without the test of config.sync.dry_run.
WriteTurn_ignoring_dry_run ==
    /\ queue # <<>>
    /\ pc = "resolved" \/ (pc = "task" /\ ~NeedsLookup(Head(queue)))

\* _sync_task has the assignee and is about to write the task to the target.
WriteTurn ==
    /\ queue # <<>> /\ ~dryRun
    /\ pc = "resolved" \/ (pc = "task" /\ ~NeedsLookup(Head(queue)))

\* _resolve_user is about to ask the source for the user.
LookupTurn == pc = "task" /\ queue # <<>> /\ ~dryRun /\ NeedsLookup(Head(queue))

\* open_task_id that is the id of the parent's work package.
open_task_id_parent == parent_open_id(Head(queue))

\* The work package _sync_task hands to _sync_comments and _sync_attachments:
\* its local existing_open_id, the id found in the store or else the id of the
\* work package just created.
open_task_id == pending.open_id

\* A remote call as the history keeps it; to is the work package a comment or
\* an attachment is posted to.
Call(name, task_id, arg, result, seen) ==
    [call |-> name, task |-> task_id, arg |-> arg, result |-> result, seen |-> seen,
     to |-> IF name \in {"create_comment", "upload_attachment"} THEN open_task_id ELSE None]

\* _enrich_task: get_comments or get_files answers with an error status.
EnrichFails ==
    /\ pc = "task" /\ queue # <<>>
    /\ calls' = Append(calls, Call("get_comments", Head(queue), "", "error", None))
    /\ Raise("error")
    /\ UNCHANGED <<parent, src, clock, taskMap, watermark, created, log, mode, dryRun,
                   since, cur, batch, queue, stats, fetchedAt, wmAtStart,
                   mappedAtStart, edits, runs, streak, tainted>>
    /\ UNCHANGED <<assignee, comments, files, userMap, commentMap, attachMap, idx,
                   tmpFiles, storeVars>>
    /\ UNCHANGED <<envVars, orderVars, payloadVars, prev, raw, requested>>

\* _resolve_user: get_users answers with an error status; MegaplanAPIError
\* leaves _resolve_user, _sync_task and the run.
GetUsersFails ==
    /\ LookupTurn
    /\ LET u == assignee[Head(queue)] IN
       calls' = Append(calls, Call("get_users", Head(queue), u, "error", get_user(u)))
    /\ Raise("error")
    /\ UNCHANGED <<parent, src, clock, taskMap, watermark, created, log, mode, dryRun,
                   since, cur, batch, queue, stats, fetchedAt, wmAtStart,
                   mappedAtStart, edits, runs, streak, tainted>>
    /\ UNCHANGED <<assignee, comments, files, userMap, commentMap, attachMap, idx,
                   tmpFiles, storeVars>>
    /\ UNCHANGED <<envVars, orderVars, payloadVars, prev, raw, requested>>

\* _resolve_user: get_users returns no profile; a warning, and the default user.
GetUsersEmpty ==
    /\ LookupTurn
    /\ LET u == assignee[Head(queue)] IN
       calls' = Append(calls, Call("get_users", Head(queue), u, "empty", get_user(u)))
    /\ pc' = "resolved"
    /\ UNCHANGED <<parent, src, clock, taskMap, watermark, created, log, mode, dryRun,
                   since, cur, batch, queue, pending, stats, results, outcome, returned,
                   fetchedAt, wmAtStart, mappedAtStart, edits, runs, streak, tainted>>
    /\ UNCHANGED <<assignee, comments, files, userMap, commentMap, attachMap, idx,
                   tmpFiles, storeVars>>
    /\ UNCHANGED <<envVars, orderVars, payloadVars, prev, raw, requested>>

\* _resolve_user: get_users returns the profile, ensure_user finds or creates
\* the user, upsert_user records the id.
EnsureUser ==
    /\ LookupTurn
    /\ LET u == assignee[Head(queue)] IN
       /\ calls' = calls \o <<Call("get_users", Head(queue), u, "ok", get_user(u)),
                              Call("ensure_user", Head(queue), u, "ok", get_user(u))>>
       /\ userMap' = upsert_user(u, OpenUserId(u))
    /\ pc' = "resolved"
    /\ UNCHANGED <<parent, src, clock, taskMap, watermark, created, log, mode, dryRun,
                   since, cur, batch, queue, pending, stats, results, outcome, returned,
                   fetchedAt, wmAtStart, mappedAtStart, edits, runs, streak, tainted>>
    /\ UNCHANGED <<assignee, comments, files, commentMap, attachMap, idx, tmpFiles,
                   storeVars>>
    /\ UNCHANGED <<envVars, orderVars, payloadVars, prev, raw, requested>>

\* _resolve_user: get_users returns the profile and ensure_user raises (an
\* error status of the target, or a profile without login and e-mail).
EnsureUserFails ==
    /\ LookupTurn
    /\ LET u == assignee[Head(queue)] IN
       calls' = calls \o <<Call("get_users", Head(queue), u, "ok", get_user(u)),
                           Call("ensure_user", Head(queue), u, "error", get_user(u))>>
    /\ Raise("error")
    /\ UNCHANGED <<parent, src, clock, taskMap, watermark, created, log, mode, dryRun,
                   since, cur, batch, queue, stats, fetchedAt, wmAtStart,
                   mappedAtStart, edits, runs, streak, tainted>>
    /\ UNCHANGED <<assignee, comments, files, userMap, commentMap, attachMap, idx,
                   tmpFiles, storeVars>>
    /\ UNCHANGED <<envVars, orderVars, payloadVars, prev, raw, requested>>

\* The loop body of _sync_project in a dry run: the task is counted as skipped.
DryRunTask ==
    /\ pc = "task" /\ queue # <<>> /\ dryRun
    /\ stats' = [stats EXCEPT !.skipped = @ + 1]
    /\ queue' = Tail(queue)
    /\ UNCHANGED <<parent, src, clock, taskMap, watermark, created, log, pc, mode,
                   dryRun, since, cur, batch, pending, results, outcome, returned,
                   fetchedAt, wmAtStart, mappedAtStart, edits, runs, streak, tainted>>
    /\ UNCHANGED <<itemVars, storeVars>>
    /\ UNCHANGED <<envVars, orderVars, payloadVars, prev, raw, requested>>

\* _sync_task, the branch "if existing_open_id": update_work_package succeeds.
UpdateTask ==
    /\ WriteTurn
    /\ LET t == Head(queue)
           existing_open_id == get_task(t)
       IN  /\ Truthy(existing_open_id)
           /\ log' = Append(log, [op |-> "update", task |-> t, id |-> existing_open_id,
                                  payload |-> task_payload(t), rev |-> task_record(t),
                                  inBatch |-> parent[t] \in Elems(batch),
                                  inStore |-> ParentMapped(t)])
           /\ stats' = [stats EXCEPT !.updated = @ + 1]
           /\ pending' = [op |-> "update", open_id |-> existing_open_id]
    /\ pc' = "commit"
    /\ UNCHANGED <<parent, src, clock, taskMap, watermark, created, mode, dryRun,
                   since, cur, batch, queue, results, outcome, returned, fetchedAt,
                   wmAtStart, mappedAtStart, edits, runs, streak, tainted>>
    /\ UNCHANGED <<itemVars, storeVars>>
    /\ UNCHANGED <<envVars, orderVars, payloadVars, prev, raw, requested>>

\* _sync_task, the else branch: create_work_package succeeds and the target
\* assigns the next id.
CreateTask ==
    /\ WriteTurn
    /\ Len(created) < MaxTargetId
    /\ LET t == Head(queue)
           existing_open_id == get_task(t)
           open_id == Len(created) + idBase
       IN  /\ ~Truthy(existing_open_id)
           /\ created' = Append(created, t)
           /\ log' = Append(log, [op |-> "create", task |-> t, id |-> open_id,
                                  payload |-> task_payload(t), rev |-> task_record(t),
                                  inBatch |-> parent[t] \in Elems(batch),
                                  inStore |-> ParentMapped(t)])
           /\ pending' = [op |-> "create", open_id |-> open_id]
    /\ pc' = "commit"
    /\ UNCHANGED <<parent, src, clock, taskMap, watermark, mode, dryRun, since, cur,
                   batch, queue, stats, results, outcome, returned, fetchedAt,
                   wmAtStart, mappedAtStart, edits, runs, streak, tainted>>
    /\ UNCHANGED <<itemVars, storeVars>>
    /\ UNCHANGED <<envVars, orderVars, payloadVars, prev, raw, requested>>

\* WriteFails that records the watermark on its way out.
WriteFails_advancing ==
    /\ WriteTurn
    /\ Raise("error")
    /\ watermark' = set_last_sync(Projects[cur], clock)
    /\ UNCHANGED <<parent, src, clock, taskMap, created, log, mode, dryRun,
                   since, cur, batch, queue, stats, fetchedAt, wmAtStart,
                   mappedAtStart, edits, runs, streak, tainted>>
    /\ UNCHANGED <<itemVars, storeVars>>
    /\ UNCHANGED <<envVars, orderVars, payloadVars, prev, raw, requested>>

\* The target answers the create or update with an error status: OpenProjectAPIError.
WriteFails ==
    /\ WriteTurn
    /\ Raise("error")
    /\ UNCHANGED <<parent, src, clock, taskMap, watermark, created, log, mode, dryRun,
                   since, cur, batch, queue, stats, fetchedAt, wmAtStart,
                   mappedAtStart, edits, runs, streak, tainted>>
    /\ UNCHANGED <<itemVars, storeVars>>
    /\ UNCHANGED <<envVars, orderVars, payloadVars, prev, raw, requested>>

\* CommitTask that counts every written task as created.
CommitTask_counting_updates ==
    /\ pc = "commit"
    /\ taskMap' = upsert_task(Head(queue), pending.open_id)
    /\ stats' = [stats EXCEPT !.created = @ + 1]
    /\ IF comments[Head(queue)] = <<>> /\ files[Head(queue)] = <<>>
       THEN queue' = Tail(queue) /\ pc' = "task" /\ pending' = NoPending
       ELSE queue' = queue /\ pc' = "comments"
            /\ pending' = [pending EXCEPT !.op = "none"]
    /\ idx' = 1
    /\ UNCHANGED <<parent, src, clock, watermark, created, log, mode, dryRun, since,
                   cur, batch, results, outcome, returned, fetchedAt, wmAtStart,
                   mappedAtStart, edits, runs, streak, tainted>>
    /\ UNCHANGED <<assignee, comments, files, userMap, commentMap, attachMap, calls,
                   tmpFiles, storeVars>>
    /\ UNCHANGED <<envVars, orderVars, payloadVars, prev, raw, requested>>

\* _sync_task after the target write: upsert_task, and the created counter.
\* A task with comments or attachments goes on to _sync_comments; from here
\* on existing_open_id is the id just stored for the task.
CommitTask ==
    /\ pc = "commit"
    /\ taskMap' = upsert_task(Head(queue), pending.open_id)
    /\ stats' = IF pending.op = "create" THEN [stats EXCEPT !.created = @ + 1] ELSE stats
    /\ IF comments[Head(queue)] = <<>> /\ files[Head(queue)] = <<>>
       THEN queue' = Tail(queue) /\ pc' = "task" /\ pending' = NoPending
       ELSE queue' = queue /\ pc' = "comments"
            /\ pending' = [pending EXCEPT !.op = "none"]
    /\ idx' = 1
    /\ UNCHANGED <<parent, src, clock, watermark, created, log, mode, dryRun, since,
                   cur, batch, results, outcome, returned, fetchedAt, wmAtStart,
                   mappedAtStart, edits, runs, streak, tainted>>
    /\ UNCHANGED <<assignee, comments, files, userMap, commentMap, attachMap, calls,
                   tmpFiles, storeVars>>
    /\ UNCHANGED <<envVars, orderVars, payloadVars, prev, raw, requested>>

\* ----------------------------------------------- comments and attachments

\* The comment and the attachment the loops of _sync_comments and
\* _sync_attachments have reached.
comment_key == CommentKey(Head(queue), comments[Head(queue)][idx])

attachment == files[Head(queue)][idx]

CommentTurn == pc = "comments" /\ idx <= Len(comments[Head(queue)])

AttachmentTurn == pc = "attachments" /\ idx <= Len(files[Head(queue)])

\* _sync_comments: the comment's key has a truthy id in the store; continue.
SkipComment ==
    /\ CommentTurn
    /\ Truthy(get_comment(comment_key))
    /\ idx' = idx + 1
    /\ UNCHANGED <<parent, src, clock, taskMap, watermark, created, log, pc, mode,
                   dryRun, since, cur, batch, queue, pending, stats, results, outcome,
                   returned, fetchedAt, wmAtStart, mappedAtStart, edits, runs, streak,
                   tainted>>
    /\ UNCHANGED <<assignee, comments, files, userMap, commentMap, attachMap, calls,
                   tmpFiles, storeVars>>
    /\ UNCHANGED <<envVars, orderVars, payloadVars, prev, raw, requested>>

\* _sync_comments: create_comment succeeds; the response carries the id of the
\* new comment or none, read as int(response.get('id') or 0), and the store
\* keeps "comment_id or open_task_id" under the key.
PostComment ==
    /\ CommentTurn
    /\ ~Truthy(get_comment(comment_key))
    /\ \E comment_id \in {0, Len(calls) + 1} :
          commentMap' = upsert_comment(comment_key,
                                       IF Truthy(comment_id) THEN comment_id
                                       ELSE open_task_id)
    /\ calls' = Append(calls, Call("create_comment", Head(queue), comments[Head(queue)][idx],
                                   "ok", get_comment(comment_key)))
    /\ stats' = [stats EXCEPT !.comments = @ + 1]
    /\ idx' = idx + 1
    /\ UNCHANGED <<parent, src, clock, taskMap, watermark, created, log, pc, mode,
                   dryRun, since, cur, batch, queue, pending, results, outcome,
                   returned, fetchedAt, wmAtStart, mappedAtStart, edits, runs, streak,
                   tainted>>
    /\ UNCHANGED <<assignee, comments, files, userMap, attachMap, tmpFiles, storeVars>>
    /\ UNCHANGED <<envVars, orderVars, payloadVars, prev, raw, requested>>

\* CommentFails that records the comment before the call has answered.
CommentFails_recording ==
    /\ CommentTurn
    /\ ~Truthy(get_comment(comment_key))
    /\ calls' = Append(calls, Call("create_comment", Head(queue), comments[Head(queue)][idx],
                                   "error", get_comment(comment_key)))
    /\ Raise("error")
    /\ UNCHANGED <<parent, src, clock, taskMap, watermark, created, log, mode, dryRun,
                   since, cur, batch, queue, stats, fetchedAt, wmAtStart,
                   mappedAtStart, edits, runs, streak, tainted>>
    /\ commentMap' = upsert_comment(comment_key, open_task_id)
    /\ UNCHANGED <<assignee, comments, files, userMap, attachMap, idx,
                   tmpFiles, storeVars>>
    /\ UNCHANGED <<envVars, orderVars, payloadVars, prev, raw, requested>>

\* _sync_comments: create_comment answers with an error status.
CommentFails ==
    /\ CommentTurn
    /\ ~Truthy(get_comment(comment_key))
    /\ calls' = Append(calls, Call("create_comment", Head(queue), comments[Head(queue)][idx],
                                   "error", get_comment(comment_key)))
    /\ Raise("error")
    /\ UNCHANGED <<parent, src, clock, taskMap, watermark, created, log, mode, dryRun,
                   since, cur, batch, queue, stats, fetchedAt, wmAtStart,
                   mappedAtStart, edits, runs, streak, tainted>>
    /\ UNCHANGED <<assignee, comments, files, userMap, commentMap, attachMap, idx,
                   tmpFiles, storeVars>>
    /\ UNCHANGED <<envVars, orderVars, payloadVars, prev, raw, requested>>

\* _sync_comments returns; _sync_task goes on to _sync_attachments.
CommentsDone ==
    /\ pc = "comments" /\ idx > Len(comments[Head(queue)])
    /\ pc' = "attachments"
    /\ idx' = 1
    /\ UNCHANGED <<parent, src, clock, taskMap, watermark, created, log, mode,
                   dryRun, since, cur, batch, queue, pending, stats, results, outcome,
                   returned, fetchedAt, wmAtStart, mappedAtStart, edits, runs, streak,
                   tainted>>
    /\ UNCHANGED <<assignee, comments, files, userMap, commentMap, attachMap, calls,
                   tmpFiles, storeVars>>
    /\ UNCHANGED <<envVars, orderVars, payloadVars, prev, raw, requested>>

\* The size test with the limit one byte too high.
TooLarge_lenient(size) == size > MaxBytes + 1

\* attachment.size > attachment_max_mb * 1024 * 1024
TooLarge(size) == size > MaxBytes

\* _sync_attachments: the attachment is over the size limit (a warning), or its
\* id has a truthy id in the store; continue.
SkipAttachment ==
    /\ AttachmentTurn
    /\ TooLarge(attachment.size) \/ Truthy(get_attachment(attachment.id))
    /\ idx' = idx + 1
    /\ UNCHANGED <<parent, src, clock, taskMap, watermark, created, log, pc, mode,
                   dryRun, since, cur, batch, queue, pending, stats, results, outcome,
                   returned, fetchedAt, wmAtStart, mappedAtStart, edits, runs, streak,
                   tainted>>
    /\ UNCHANGED <<assignee, comments, files, userMap, commentMap, attachMap, calls,
                   tmpFiles, storeVars>>
    /\ UNCHANGED <<envVars, orderVars, payloadVars, prev, raw, requested>>

DownloadTurn ==
    /\ AttachmentTurn
    /\ ~TooLarge(attachment.size)
    /\ ~Truthy(get_attachment(attachment.id))

\* _download_attachment: download_file writes the file into tmp_dir.
Download ==
    /\ DownloadTurn
    /\ calls' = Append(calls, Call("download_file", Head(queue), attachment.id, "ok",
                                   get_attachment(attachment.id)))
    /\ tmpFiles' = tmpFiles \cup {attachment.filename}
    /\ pc' = "upload"
    /\ UNCHANGED <<parent, src, clock, taskMap, watermark, created, log, mode,
                   dryRun, since, cur, batch, queue, pending, stats, results, outcome,
                   returned, fetchedAt, wmAtStart, mappedAtStart, edits, runs, streak,
                   tainted>>
    /\ UNCHANGED <<assignee, comments, files, userMap, commentMap, attachMap, idx,
                   storeVars>>
    /\ UNCHANGED <<envVars, orderVars, payloadVars, prev, raw, requested>>

\* _download_attachment: download_file raises, on the error status before the
\* file is opened or while the body is being written to it; the call is
\* outside the try of _sync_attachments.
DownloadFails ==
    /\ DownloadTurn
    /\ calls' = Append(calls, Call("download_file", Head(queue), attachment.id, "error",
                                   get_attachment(attachment.id)))
    /\ \/ tmpFiles' = tmpFiles
       \/ tmpFiles' = tmpFiles \cup {attachment.filename}
    /\ Raise("error")
    /\ UNCHANGED <<parent, src, clock, taskMap, watermark, created, log, mode, dryRun,
                   since, cur, batch, queue, stats, fetchedAt, wmAtStart,
                   mappedAtStart, edits, runs, streak, tainted>>
    /\ UNCHANGED <<assignee, comments, files, userMap, commentMap, attachMap, idx,
                   storeVars>>
    /\ UNCHANGED <<envVars, orderVars, payloadVars, prev, raw, requested>>

\* _sync_attachments, the try block: upload_attachment succeeds,
\* upsert_attachment records the id, and finally removes the file.
UploadAttachment ==
    /\ pc = "upload"
    /\ calls' = Append(calls, Call("upload_attachment", Head(queue), attachment.id, "ok",
                                   get_attachment(attachment.id)))
    /\ attachMap' = upsert_attachment(attachment.id, Len(calls) + 1)
    /\ stats' = [stats EXCEPT !.attachments = @ + 1]
    /\ tmpFiles' = tmpFiles \ {attachment.filename}
    /\ idx' = idx + 1
    /\ pc' = "attachments"
    /\ UNCHANGED <<parent, src, clock, taskMap, watermark, created, log, mode,
                   dryRun, since, cur, batch, queue, pending, results, outcome,
                   returned, fetchedAt, wmAtStart, mappedAtStart, edits, runs, streak,
                   tainted>>
    /\ UNCHANGED <<assignee, comments, files, userMap, commentMap, storeVars>>
    /\ UNCHANGED <<envVars, orderVars, payloadVars, prev, raw, requested>>

\* UploadFails without the finally clause.
UploadFails_leaking ==
    /\ pc = "upload"
    /\ calls' = Append(calls, Call("upload_attachment", Head(queue), attachment.id, "error",
                                   get_attachment(attachment.id)))
    /\ Raise("error")
    /\ UNCHANGED <<parent, src, clock, taskMap, watermark, created, log, mode, dryRun,
                   since, cur, batch, queue, stats, fetchedAt, wmAtStart,
                   mappedAtStart, edits, runs, streak, tainted>>
    /\ UNCHANGED <<assignee, comments, files, userMap, commentMap, attachMap, idx,
                   tmpFiles, storeVars>>
    /\ UNCHANGED <<envVars, orderVars, payloadVars, prev, raw, requested>>

\* _sync_attachments, the try block: upload_attachment raises; finally removes
\* the file and the error leaves the run.
UploadFails ==
    /\ pc = "upload"
    /\ calls' = Append(calls, Call("upload_attachment", Head(queue), attachment.id, "error",
                                   get_attachment(attachment.id)))
    /\ tmpFiles' = tmpFiles \ {attachment.filename}
    /\ Raise("error")
    /\ UNCHANGED <<parent, src, clock, taskMap, watermark, created, log, mode, dryRun,
                   since, cur, batch, queue, stats, fetchedAt, wmAtStart,
                   mappedAtStart, edits, runs, streak, tainted>>
    /\ UNCHANGED <<assignee, comments, files, userMap, commentMap, attachMap, idx,
                   storeVars>>
    /\ UNCHANGED <<envVars, orderVars, payloadVars, prev, raw, requested>>

\* _sync_attachments and _sync_task return: the loop of _sync_project takes
\* the next task.
AttachmentsDone ==
    /\ pc = "attachments" /\ idx > Len(files[Head(queue)])
    /\ queue' = Tail(queue)
    /\ pc' = "task"
    /\ idx' = 1
    /\ pending' = NoPending
    /\ UNCHANGED <<parent, src, clock, taskMap, watermark, created, log, mode,
                   dryRun, since, cur, batch, stats, results, outcome,
                   returned, fetchedAt, wmAtStart, mappedAtStart, edits, runs, streak,
                   tainted>>
    /\ UNCHANGED <<assignee, comments, files, userMap, commentMap, attachMap, calls,
                   tmpFiles, storeVars>>
    /\ UNCHANGED <<envVars, orderVars, payloadVars, prev, raw, requested>>

\* ------------------------------------------------------------ end of project

\* watermark_moment taken when the project's fetch began.
watermark_moment_fetch == fetchedAt[Projects[cur]]

\* The moment written as the project's watermark: datetime.utcnow() when
\* _sync_project has returned.
watermark_moment == clock

\* The streak of clean full migrations after this run has completed.
NextStreak ==
    IF mode = "initial" /\ ~dryRun /\ ~tainted
    THEN (IF streak < 2 THEN streak + 1 ELSE 2)
    ELSE 0

\* FinishProject that leaves the watermark alone in a dry run.
FinishProject_dry_keeps ==
    /\ pc = "task" /\ queue = <<>>
    /\ LET p == Projects[cur]
           res == [q \in DOMAIN results \cup {p} |-> IF q = p THEN stats ELSE results[q]]
       IN  /\ watermark' = IF dryRun THEN watermark ELSE set_last_sync(p, watermark_moment)
           /\ IF cur < Len(Projects)
              THEN /\ results' = res
                   /\ cur' = cur + 1
                   /\ pc' = "project"
                   /\ UNCHANGED <<outcome, returned, streak>>
              ELSE /\ results' = EmptyResults
                   /\ returned' = [has |-> TRUE, value |-> res]
                   /\ outcome' = "ok"
                   /\ pc' = "idle"
                   /\ streak' = NextStreak
                   /\ UNCHANGED cur
    /\ UNCHANGED <<parent, src, clock, taskMap, created, log, mode, dryRun, since,
                   batch, queue, pending, stats, fetchedAt, wmAtStart, mappedAtStart,
                   edits, runs, tainted>>
    /\ UNCHANGED <<itemVars, storeVars>>
    /\ UNCHANGED <<envVars, orderVars, payloadVars, prev, raw, requested>>

\* _sync_project returns: results[megaplan_id] = stats and set_last_sync; after
\* the last project the run returns results.
FinishProject ==
    /\ pc = "task" /\ queue = <<>>
    /\ LET p == Projects[cur]
           res == [q \in DOMAIN results \cup {p} |-> IF q = p THEN stats ELSE results[q]]
       IN  /\ watermark' = set_last_sync(p, watermark_moment)
           /\ IF cur < Len(Projects)
              THEN /\ results' = res
                   /\ cur' = cur + 1
                   /\ pc' = "project"
                   /\ UNCHANGED <<outcome, returned, streak>>
              ELSE /\ results' = EmptyResults
                   /\ returned' = [has |-> TRUE, value |-> res]
                   /\ outcome' = "ok"
                   /\ pc' = "idle"
                   /\ streak' = NextStreak
                   /\ UNCHANGED cur
    /\ UNCHANGED <<parent, src, clock, taskMap, created, log, mode, dryRun, since,
                   batch, queue, pending, stats, fetchedAt, wmAtStart, mappedAtStart,
                   edits, runs, tainted>>
    /\ UNCHANGED <<itemVars, storeVars>>
    /\ UNCHANGED <<envVars, orderVars, payloadVars, prev, raw, requested>>

\* The process is terminated in the middle of a run.
Crash ==
    /\ pc # "idle"
    /\ Raise("killed")
    /\ UNCHANGED <<parent, src, clock, taskMap, watermark, created, log, mode, dryRun,
                   since, cur, batch, queue, stats, fetchedAt, wmAtStart,
                   mappedAtStart, edits, runs, streak, tainted>>
    /\ UNCHANGED <<itemVars, storeVars>>
    /\ UNCHANGED <<envVars, orderVars, payloadVars, prev, raw, requested>>

\* The runs of the synchronisation with the clock standing still: the source
\* may gain a task, runs may fail or be killed.
Next ==
    \/ \E t \in SourceIds : SourceEdit(t)
    \/ \E m \in {"initial", "incremental"}, d \in BOOLEAN : StartRun(m, d, None)
    \/ FetchProject
    \/ FetchFails
    \/ DryRunTask
    \/ UpdateTask
    \/ CreateTask
    \/ WriteFails
    \/ CommitTask
    \/ FinishProject
    \/ Crash

Spec == Init /\ [][Next]_vars

\* The source data of the timed runs: the chain 3 -> 2 -> 1 with 4 below 1.
InitTime ==
    /\ Init
    /\ parent["3"] = "2" /\ parent["4"] = "1"

\* The runs of the synchronisation while time passes and the source data
\* changes; no call fails.
NextTime ==
    \/ Tick
    \/ \E t \in SourceIds : SourceEdit(t)
    \/ \E m \in {"initial", "incremental"}, d \in BOOLEAN, s \in {None, 0} :
          /\ (m = "initial" => s = None)
          /\ StartRun(m, d, s)
    \/ FetchProject
    \/ DryRunTask
    \/ UpdateTask
    \/ CreateTask
    \/ CommitTask
    \/ FinishProject

SpecTime == InitTime /\ [][NextTime]_vars

\* ================================= runs with users, comments and attachments

\* Source data of project p1: task 1 with responsible user u1, comments c1 and
\* c2 and two attachments; its child 2 with the same user and a comment that
\* is also numbered c1. Project p2: task 4 without user, comment or attachment.
InitItems ==
    /\ InitBase
    /\ OrdinaryEnv
    /\ parent = [t \in SourceIds |-> IF t = "2" THEN "1" ELSE NoParent]
    /\ src = [t \in SourceIds |-> IF t = "3" THEN None ELSE 0]
    /\ assignee = [t \in SourceIds |-> IF t \in {"1", "2"} THEN "u1" ELSE NoUser]
    /\ comments = [t \in SourceIds |-> CASE t = "1" -> <<"c1", "c2">>
                                         [] t = "2" -> <<"c1">>
                                         [] OTHER -> <<>>]
    /\ files = [t \in SourceIds |-> IF t = "1" THEN <<BigFile, EdgeFile>> ELSE <<>>]

\* The runs of the synchronisation over that data: any remote call made for a
\* user, a comment or an attachment may fail.
NextItems ==
    \/ \E m \in {"initial", "incremental"}, d \in BOOLEAN : StartRun(m, d, None)
    \/ FetchProject
    \/ EnrichFails
    \/ DryRunTask
    \/ GetUsersFails
    \/ GetUsersEmpty
    \/ EnsureUser
    \/ EnsureUserFails
    \/ UpdateTask
    \/ CreateTask
    \/ WriteFails
    \/ CommitTask
    \/ SkipComment
    \/ PostComment
    \/ CommentFails
    \/ CommentsDone
    \/ SkipAttachment
    \/ Download
    \/ DownloadFails
    \/ UploadAttachment
    \/ UploadFails
    \/ AttachmentsDone
    \/ FinishProject

SpecItems == InitItems /\ [][NextItems]_vars

\* ================================================== the store called directly

\* A caller puts a mapping: MappingStore.upsert_task, upsert_user,
\* upsert_attachment or upsert_comment, according to the table.
StorePut(table, key, value) ==
    /\ storeOps < MaxStoreOps
    /\ rows' = Rows_upsert(rows, table, key, value, clock)
    /\ lastPut' = [lastPut EXCEPT ![<<table, key>>] = [value |-> value, puts |-> @.puts + 1]]
    /\ storeOp' = [op |-> "put", table |-> table, key |-> key, value |-> value]
    /\ storeOps' = storeOps + 1
    /\ UNCHANGED <<parent, src, clock, taskMap, watermark, created, log, pc, mode, dryRun,
                   since, cur, batch, queue, pending, stats, results, outcome,
                   returned, fetchedAt, wmAtStart, mappedAtStart, edits, runs, streak,
                   tainted, itemVars>>
    /\ UNCHANGED <<envVars, orderVars, payloadVars, prev, raw, requested>>

\* A caller looks a mapping up: get_task, get_user, get_attachment or get_comment.
StoreGet(table, key) ==
    /\ storeOps < MaxStoreOps
    /\ storeOp' = [op |-> "get", table |-> table, key |-> key,
                   value |-> Rows_get(rows, table, key)]
    /\ storeOps' = storeOps + 1
    /\ UNCHANGED <<parent, src, clock, taskMap, watermark, created, log, pc, mode, dryRun,
                   since, cur, batch, queue, pending, stats, results, outcome,
                   returned, fetchedAt, wmAtStart, mappedAtStart, edits, runs, streak,
                   tainted, itemVars, rows, lastPut>>
    /\ UNCHANGED <<envVars, orderVars, payloadVars, prev, raw, requested>>

\* A caller sets the watermark of a project: set_last_sync(project_id, utcnow()).
StoreSetLastSync(project_id) ==
    /\ storeOps < MaxStoreOps
    /\ watermark' = set_last_sync(project_id, clock)
    /\ storeOp' = [op |-> "set", table |-> "sync_state", key |-> project_id, value |-> clock]
    /\ storeOps' = storeOps + 1
    /\ UNCHANGED <<parent, src, clock, taskMap, created, log, pc, mode, dryRun,
                   since, cur, batch, queue, pending, stats, results, outcome,
                   returned, fetchedAt, wmAtStart, mappedAtStart, edits, runs, streak,
                   tainted, itemVars, rows, lastPut>>
    /\ UNCHANGED <<envVars, orderVars, payloadVars, prev, raw, requested>>

InitStore == InitTime

\* Any sequence of calls on the store while time passes.
NextStore ==
    \/ Tick
    \/ \E table \in Tables, key \in StoreKeys, value \in StoreValues : StorePut(table, key, value)
    \/ \E table \in Tables, key \in StoreKeys : StoreGet(table, key)
    \/ \E p \in ProjectIds : StoreSetLastSync(p)

SpecStore == InitStore /\ [][NextStore]_vars

\* ------------------------------------------- _order_tasks, step by step

\* The stack of visit calls Python allows (sys.getrecursionlimit), scaled to
\* the batches below: deeper than any chain of distinct tasks.
MaxDepth == 4

\* The tasks of the batches _order_tasks is run on.
OrderIds == {"1", "2", "3"}

\* Every way to give those tasks a parent: none, one outside the batch,
\* another task, the task itself; chains and cycles of every length.
OrderParents ==
    {f \in [SourceIds -> OrderIds \cup {NoParent, ExtParent}] : f["4"] = NoParent}

\* Every dict of tasks: every subset of the tasks in every order of keys.
OrderBatches == UNION {Perms(S) : S \in SUBSET OrderIds}

\* The frame of a call visit(task_id): at "enter" before the visited test, at
\* "append" when the call it made for the parent has returned or none was made.
Frame(task_id, at) == [task |-> task_id, at |-> at]

\* "visited[task_id] = True" left out.
mark_never(task_id) == visited

\* "visited[task_id] = True", before the parent is visited.
mark(task_id) == visited \cup {task_id}

\* The state after construction with _order_tasks(tasks) just called.
InitOrder ==
    /\ InitFields
    /\ OrdinaryEnv
    /\ built = NoPayload
    /\ parent \in OrderParents
    /\ src = [t \in SourceIds |-> 0]
    /\ assignee = [t \in SourceIds |-> NoUser]
    /\ comments = [t \in SourceIds |-> <<>>]
    /\ files = [t \in SourceIds |-> <<>>]
    /\ batch \in OrderBatches
    /\ queue = batch
    /\ pc = "order"

\* What the steps of _order_tasks leave alone.
OrderFrame ==
    UNCHANGED <<parent, src, clock, taskMap, watermark, created, log, mode, dryRun,
                since, cur, batch, pending, stats, results, outcome, returned,
                fetchedAt, wmAtStart, mappedAtStart, edits, runs, streak, tainted,
                itemVars, storeVars, envVars, payloadVars, prev, raw, requested>>

\* "for task_id in list(tasks.keys()): visit(task_id)": the next key.
OrderCall ==
    /\ pc = "order" /\ stack = <<>> /\ queue # <<>>
    /\ stack' = <<Frame(Head(queue), "enter")>>
    /\ queue' = Tail(queue)
    /\ UNCHANGED <<pc, visited, ordered>>
    /\ OrderFrame

\* visit that appends the task before it tests visited.
VisitSeen_appending ==
    /\ pc = "order" /\ stack # <<>>
    /\ LET top == stack[Len(stack)] IN
          /\ top.at = "enter"
          /\ top.task \in visited
          /\ ordered' = Append(ordered, top.task)
    /\ stack' = SubSeq(stack, 1, Len(stack) - 1)
    /\ UNCHANGED <<pc, queue, visited>>
    /\ OrderFrame

\* visit: "if visited.get(task_id): return".
VisitSeen ==
    /\ pc = "order" /\ stack # <<>>
    /\ LET top == stack[Len(stack)] IN
          /\ top.at = "enter"
          /\ top.task \in visited
    /\ stack' = SubSeq(stack, 1, Len(stack) - 1)
    /\ UNCHANGED <<pc, queue, visited, ordered>>
    /\ OrderFrame

\* visit of a task not seen before: it is marked, and the parent is visited
\* if it is in the batch; a call beyond the recursion limit raises
\* RecursionError.
VisitMark ==
    /\ pc = "order" /\ stack # <<>>
    /\ LET top  == stack[Len(stack)]
           here == [stack EXCEPT ![Len(stack)] = Frame(top.task, "append")]
       IN  /\ top.at = "enter"
           /\ top.task \notin visited
           /\ visited' = mark(top.task)
           /\ IF parent[top.task] # NoParent /\ parent[top.task] \in Elems(batch)
              THEN IF Len(stack) < MaxDepth
                   THEN /\ stack' = Append(here, Frame(parent[top.task], "enter"))
                        /\ pc' = pc
                   ELSE /\ stack' = <<>>
                        /\ pc' = "overflow"
              ELSE /\ stack' = here
                   /\ pc' = pc
    /\ UNCHANGED <<queue, ordered>>
    /\ OrderFrame

\* visit: "ordered.append(task)", and the call returns.
VisitAppend ==
    /\ pc = "order" /\ stack # <<>>
    /\ LET top == stack[Len(stack)] IN
          /\ top.at = "append"
          /\ ordered' = Append(ordered, top.task)
    /\ stack' = SubSeq(stack, 1, Len(stack) - 1)
    /\ UNCHANGED <<pc, queue, visited>>
    /\ OrderFrame

\* "return ordered".
OrderReturn ==
    /\ pc = "order" /\ stack = <<>> /\ queue = <<>>
    /\ pc' = "ordered"
    /\ UNCHANGED <<queue, visited, ordered, stack>>
    /\ OrderFrame

NextOrder ==
    \/ OrderCall
    \/ VisitSeen
    \/ VisitMark
    \/ VisitAppend
    \/ OrderReturn

\* The interpreter keeps running the call until it returns or raises.
SpecOrder == InitOrder /\ [][NextOrder]_vars /\ WF_vars(NextOrder)

\* ================================================ runs and the credentials

\* The service is set up again with other Megaplan credentials in its
\* configuration; the store and the target stay as they are.
Reconfigure(c) ==
    /\ pc = "idle"
    /\ credentials # c
    /\ credentials' = c
    /\ outcome' = "none"
    /\ returned' = [has |-> FALSE, value |-> EmptyResults]
    /\ requested' = {}
    /\ UNCHANGED <<parent, src, clock, taskMap, watermark, created, log, pc, mode,
                   dryRun, since, cur, batch, queue, pending, stats, results,
                   fetchedAt, wmAtStart, mappedAtStart, edits, runs, streak, tainted,
                   itemVars, storeVars, idBase, orderVars, payloadVars, prev, raw>>

\* The source data of these runs: one chain of tasks.
InitAuth ==
    /\ InitBase
    /\ idBase = 1 /\ given = NoGiven
    /\ credentials \in {"valid", "invalid", "absent"}
    /\ parent = [t \in SourceIds |-> CASE t = "2" -> "1" [] t = "4" -> "1" [] OTHER -> NoParent]
    /\ src = [t \in SourceIds |-> IF t = "3" THEN None ELSE 0]
    /\ assignee = [t \in SourceIds |-> NoUser]
    /\ comments = [t \in SourceIds |-> <<>>]
    /\ files = [t \in SourceIds |-> <<>>]

\* Runs under credentials of every kind; the configuration may be changed
\* between two runs.
NextAuth ==
    \/ \E c \in {"valid", "invalid", "absent"} : Reconfigure(c)
    \/ \E m \in {"initial", "incremental"}, d \in BOOLEAN : StartRun(m, d, None)
    \/ AuthFails
    \/ FetchProject
    \/ FetchFails
    \/ DryRunTask
    \/ UpdateTask
    \/ CreateTask
    \/ CommitTask
    \/ FinishProject

SpecAuth == InitAuth /\ [][NextAuth]_vars

\* ------------------------------------- to_openproject_payload on its own

\* Target ids a caller can hand over: none, or an int.
ParentArgs == {None, 0, 1, 2}

AssigneeArgs == {None, 0} \cup {OpenUserId(u) : u \in UserIds}

\* The state after construction with to_openproject_payload just called, for
\* every task and every pair of target ids.
InitPayload ==
    /\ InitFields
    /\ credentials = "valid" /\ idBase = 1
    /\ parent = [t \in SourceIds |-> NoParent]
    /\ src = [t \in SourceIds |-> 0]
    /\ assignee = [t \in SourceIds |-> NoUser]
    /\ comments = [t \in SourceIds |-> <<>>]
    /\ files = [t \in SourceIds |-> <<>>]
    /\ batch = <<>>
    /\ queue = <<>>
    /\ given \in [task : SourceIds, parent : ParentArgs, assignee : AssigneeArgs]
    /\ built = NoPayload
    /\ pc = "payload"

\* to_openproject_payload returns the payload.
BuildPayload ==
    /\ pc = "payload"
    /\ built' = to_openproject_payload(given.task, given.parent, given.assignee)
    /\ pc' = "built"
    /\ UNCHANGED <<parent, src, clock, taskMap, watermark, created, log, mode, dryRun,
                   since, cur, batch, queue, pending, stats, results, outcome,
                   returned, fetchedAt, wmAtStart, mappedAtStart, edits, runs, streak,
                   tainted, itemVars, storeVars, envVars, orderVars, given, raw,
                   requested, prev>>

NextPayload == BuildPayload

SpecPayload == InitPayload /\ [][NextPayload]_vars

\* ============================ runs against a target that numbers from zero

\* The source data of InitItems, and a target that gives id 0 to the first
\* work package it creates.
InitZero ==
    /\ InitBase
    /\ credentials = "valid" /\ given = NoGiven
    /\ idBase = 0
    /\ parent = [t \in SourceIds |-> IF t = "2" THEN "1" ELSE NoParent]
    /\ src = [t \in SourceIds |-> IF t = "3" THEN None ELSE 0]
    /\ assignee = [t \in SourceIds |-> IF t \in {"1", "2"} THEN "u1" ELSE NoUser]
    /\ comments = [t \in SourceIds |-> CASE t = "1" -> <<"c1", "c2">>
                                         [] t = "2" -> <<"c1">>
                                         [] OTHER -> <<>>]
    /\ files = [t \in SourceIds |-> IF t = "1" THEN <<BigFile, EdgeFile>> ELSE <<>>]

SpecZero == InitZero /\ [][NextItems]_vars

\* ================================== runs over listings that repeat a task

\* Non-dry runs in which the source may list a task on two pages.
NextPages ==
    \/ \E m \in {"initial", "incremental"} : StartRun(m, FALSE, None)
    \/ FetchProject
    \/ FetchOverlapping
    \/ UpdateTask
    \/ CreateTask
    \/ CommitTask
    \/ FinishProject

SpecPages == Init /\ [][NextPages]_vars

\* ======================================= failing runs while time passes

\* The runs of the synchronisation while time passes: the fetch or a write
\* of any project may fail.
NextProjects ==
    \/ Tick
    \/ \E m \in {"initial", "incremental"}, d \in BOOLEAN : StartRun(m, d, None)
    \/ FetchProject
    \/ FetchFails
    \/ DryRunTask
    \/ UpdateTask
    \/ CreateTask
    \/ WriteFails
    \/ CommitTask
    \/ FinishProject

SpecProjects == InitTime /\ [][NextProjects]_vars

\* ================================================================== claims

\* The positions of the writes the target received for the task in this run.
WritesOf(t) == {i \in 1..Len(log) : log[i].task = t}

\* How many work packages the target was asked to create for the task.
Creates(t) == Cardinality({i \in 1..Len(created) : created[i] = t})

\* C1: whatever the interleaving of interrupted runs and re-runs, at most one
\* work package is ever created for a source task id.
C1_AtMostOneCreate == \A t \in SourceIds : Creates(t) <= 1

\* C2: when a full migration (dry-run off) has completed and is run again to
\* completion over the same source data, the second run creates nothing: its
\* created counters are 0, the target received no create, and every fetched
\* task is counted as updated or skipped.
C2_SecondRunCreatesNothing ==
    (streak >= 2 /\ pc = "idle" /\ outcome = "ok") =>
        /\ returned.has
        /\ \A i \in 1..Len(log) : log[i].op # "create"
        /\ \A p \in ProjectIds :
              /\ returned.value[p].created = 0
              /\ returned.value[p].updated + returned.value[p].skipped
                    = Cardinality(Matching(p, None))

C2_Witness ==
    /\ streak >= 2 /\ pc = "idle" /\ outcome = "ok"
    /\ returned.value["p1"].updated >= 2
    /\ returned.value["p2"].updated = 1

\* C3: the step of _sync_task that writes to the target updates exactly the
\* mapped target id and creates nothing when the store holds a mapping for
\* the task, and creates one work package when it holds none; the step that
\* follows leaves the mapping of an updated task as it was, and records the id
\* returned by the create for a created one.
C3_CreateOrUpdate ==
    [][ /\ (pc = "task" /\ pc' = "commit") =>
              LET t == Head(queue) IN
              IF taskMap[t] # None
              THEN /\ created' = created
                   /\ Len(log') = Len(log) + 1
                   /\ log'[Len(log')].op = "update"
                   /\ log'[Len(log')].id = taskMap[t]
                   /\ log'[Len(log')].task = t
              ELSE /\ Len(created') = Len(created) + 1
                   /\ created'[Len(created')] = t
                   /\ Len(log') = Len(log) + 1
                   /\ log'[Len(log')].op = "create"
                   /\ log'[Len(log')].id = Len(created')
                   /\ log'[Len(log')].task = t
        /\ (pc = "commit" /\ pc' = "task") =>
              LET t == Head(queue) IN
              IF taskMap[t] # None
              THEN taskMap' = taskMap
              ELSE taskMap' = [taskMap EXCEPT ![t] = Len(created)]
      ]_vars

C3_Witness ==
    /\ pc = "commit" /\ pending.op = "update"
    /\ \E i \in 1..Len(log) : log[i].op = "create"

\* C4: with acyclic parent links, whatever the order in which the source
\* lists the batch, _order_tasks puts every task whose parent is in the batch
\* after that parent, and the target receives the parent's write before the
\* child's.
C4_ParentBeforeChild ==
    /\ LET o == order_tasks(batch) IN
       \A i, j \in 1..Len(o) : parent[o[i]] = o[j] => j < i
    /\ \A i \in 1..Len(log) :
          (ProjectOf(log[i].task) = Projects[cur] /\ parent[log[i].task] \in Elems(batch)) =>
              \E j \in 1..(i - 1) : log[j].task = parent[log[i].task]

\* The source listed a child before its parent, and both were written.
C4_Witness ==
    \E i, j \in 1..Len(batch) :
        /\ i < j
        /\ parent[batch[i]] = batch[j]
        /\ WritesOf(batch[i]) # {}
        /\ WritesOf(batch[j]) # {}

\* C5: a parent link in a payload the target received names a work package
\* that the target had created before, for the parent's source id.
C5_ParentLinkExists ==
    \A i \in 1..Len(log) :
        LET e == log[i] IN
        e.payload.parent # None =>
            /\ e.payload.parent \in 1..Len(created)
            /\ created[e.payload.parent] = parent[e.task]
            /\ (e.op = "create" => e.payload.parent < e.id)

C5_Witness ==
    \E i \in 1..Len(log) : log[i].payload.parent # None /\ log[i].op = "create"

\* C6: a task whose parent is neither in the batch nor in the task namespace
\* of the store is written without a parent link, and its mapping is recorded.
C6_OrphanTolerance ==
    \A i \in 1..Len(log) :
        LET e == log[i] IN
        (parent[e.task] # NoParent /\ ~e.inBatch /\ ~e.inStore) =>
            /\ e.payload.parent = None
            /\ (i < Len(log) \/ pc = "task") => taskMap[e.task] = e.id

C6_Witness ==
    /\ pc = "task"
    /\ \E i \in 1..Len(log) :
          /\ parent[log[i].task] # NoParent
          /\ ~log[i].inBatch /\ ~log[i].inStore
          /\ taskMap[log[i].task] = log[i].id

\* C7: when a RemoteError ends a run, the run is over with the remaining
\* tasks of the project unwritten, the mapping of every task written before
\* is in the store, and the project's watermark is the one it had when the
\* run started; and no run creates a work package for a task that was mapped
\* when the run started.
C7_FailureKeepsProgress ==
    /\ outcome = "error" =>
          /\ pc = "idle"
          /\ watermark[Projects[cur]] = wmAtStart[Projects[cur]]
          /\ \A i \in 1..Len(log) : taskMap[log[i].task] = log[i].id
          /\ \A t \in Elems(queue) : WritesOf(t) = {}
    /\ \A i \in 1..Len(log) : log[i].op = "create" => log[i].task \notin mappedAtStart

\* A write failed in the middle of a project, in a run that found tasks mapped.
C7_Witness ==
    /\ outcome = "error"
    /\ log # <<>> /\ queue # <<>>
    /\ mappedAtStart # {}

\* C8 as claimed: when a run fails on a project after earlier projects
\* completed, the statistics of the completed projects reach the caller.
C8_StatsReturnedOnFailure ==
    (outcome = "error" /\ cur > 1) =>
        /\ returned.has
        /\ \A i \in 1..(cur - 1) : Projects[i] \in DOMAIN returned.value

\* C8 as amended: when a run fails, the exception reaches the caller and no
\* statistics are returned; what the completed projects leave behind is their
\* watermark in the store.
C8_NothingReturnedOnFailure ==
    outcome = "error" =>
        /\ ~returned.has
        /\ DOMAIN returned.value = {}
        /\ \A i \in 1..(cur - 1) : watermark[Projects[i]] # None

C8_Witness ==
    /\ outcome = "error" /\ cur = 2
    /\ \E i \in 1..Len(log) : ProjectOf(log[i].task) = "p1"

\* C9: the watermark a completed project leaves in the store is no later than
\* the instant its fetch began, so that a source change made after the fetch
\* began carries a timestamp after the watermark and is fetched next time.
C9_WatermarkNotAfterFetch ==
    \A p \in ProjectIds :
        (fetchedAt[p] # None /\ watermark[p] # None) =>
            /\ watermark[p] <= fetchedAt[p]
            /\ \A t \in SourceIds :
                  (ProjectOf(t) = p /\ src[t] # None /\ src[t] > fetchedAt[p]) =>
                      src[t] > watermark[p]

\* C10: a fetch that yields no task leaves zero statistics and makes no target
\* write and no mapping write; when the project then completes, its statistics
\* are all zero, still nothing was written, and its watermark is the time of
\* that moment.
C10_EmptyFetch ==
    [][ /\ (pc = "project" /\ pc' = "task" /\ batch' = <<>>) =>
              /\ queue' = <<>>
              /\ stats' = ZeroStats
              /\ UNCHANGED <<taskMap, created, log, watermark>>
        /\ (pc = "task" /\ batch = <<>> /\ (pc' = "project" \/ outcome' = "ok")) =>
              /\ watermark'[Projects[cur]] = clock
              /\ IF pc' = "project"
                 THEN results'[Projects[cur]] = ZeroStats
                 ELSE returned'.has /\ returned'.value[Projects[cur]] = ZeroStats
              /\ UNCHANGED <<taskMap, created, log>>
      ]_vars

\* The first project completed on an empty fetch, later than its fetch began,
\* and replaced the watermark it had.
C10_Witness ==
    /\ pc = "project" /\ cur = 2
    /\ results["p1"] = ZeroStats
    /\ Matching("p1", wmAtStart["p1"]) = {}
    /\ wmAtStart["p1"] # None
    /\ watermark["p1"] = clock
    /\ watermark["p1"] > fetchedAt["p1"]
    /\ watermark["p1"] > wmAtStart["p1"]

\* The tasks of the project that exist in the source, and those updated after
\* the moment.
Existing(p) == {t \in SourceIds : ProjectOf(t) = p /\ src[t] # None}

UpdatedAfter(p, moment) == {t \in Existing(p) : src[t] > moment}

\* C11: the fetch of initial_migration has no window start and so returns every
\* task of the project whatever watermark is stored; the fetch of
\* incremental_sync returns the tasks updated after the since argument if one
\* was given, else those updated after the stored watermark if there is one,
\* else every task.
C11_WindowStart ==
    [][(pc = "project" /\ pc' = "task") =>
         LET p == Projects[cur] IN
         Elems(batch') =
            CASE mode = "initial"       -> Existing(p)
              [] since # None           -> UpdatedAfter(p, since)
              [] watermark[p] # None    -> UpdatedAfter(p, watermark[p])
              [] OTHER                  -> Existing(p)]_vars

\* An incremental run with since = 0 over a stored watermark of 1 has fetched a
\* task that was updated at 1.
C11_Witness ==
    /\ pc = "task" /\ mode = "incremental" /\ since = 0
    /\ watermark[Projects[cur]] = 1
    /\ \E t \in Elems(batch) : src[t] = 1

\* The calls of the history that reached the target system.
TargetCalls(cs) ==
    SelectSeq(cs, LAMBDA c : c.call \in {"ensure_user", "create_comment", "upload_attachment"})

\* How often the call was made with this task and argument and succeeded.
OkCalls(name, task_id, arg) ==
    Cardinality({i \in 1..Len(calls) : /\ calls[i].call = name /\ calls[i].task = task_id
                                       /\ calls[i].arg = arg /\ calls[i].result = "ok"})

\* The step appends one call with this name to the history.
CallStep(name) == Len(calls') = Len(calls) + 1 /\ calls'[Len(calls')].call = name

\* C12: no step of a dry run creates or updates a work package, posts a
\* comment, uploads an attachment or calls ensure_user, and none writes to the
\* task, user, comment or attachment table; when a project of a dry run is
\* finished its stats show every fetched task as skipped and nothing else, and
\* that is what is recorded for the project.
C12_DryRunPure ==
    [][(dryRun /\ pc # "idle") =>
          /\ UNCHANGED <<taskMap, userMap, commentMap, attachMap, created, log>>
          /\ TargetCalls(calls') = TargetCalls(calls)
          /\ (pc = "task" /\ queue = <<>> /\ pc' # pc) =>
                LET p == Projects[cur]
                    all_skipped == [ZeroStats EXCEPT !.skipped = Len(batch)]
                IN  IF pc' = "project" THEN results'[p] = all_skipped
                    ELSE returned'.has /\ returned'.value[p] = all_skipped
       ]_vars

\* A first run, dry, has completed: two tasks of p1 counted as skipped, the
\* store and the target untouched.
C12_Witness ==
    /\ dryRun /\ pc = "idle" /\ outcome = "ok" /\ runs = 1
    /\ returned.value["p1"] = [ZeroStats EXCEPT !.skipped = 2]
    /\ returned.value["p2"] = [ZeroStats EXCEPT !.skipped = 1]
    /\ \A t \in SourceIds : taskMap[t] = None
    /\ created = <<>> /\ calls = <<>>

\* C13: when get_users fails or returns no profile the task is not aborted:
\* the run stands at the task's write, the assignee is the default user and no
\* user mapping has been written.
C13_UserFetchFailureTolerated ==
    [][(LookupTurn /\ CallStep("get_users")) =>
          /\ pc' = "resolved"
          /\ userMap' = userMap
          /\ task_payload(Head(queue))'.assignee = default_user_id
       ]_vars

\* C14: get_users and ensure_user are called only for a task that has a
\* responsible user for whom the store held no id; ensure_user succeeds at
\* most once per source user and its id is then in the store; a task is
\* written with the default user if it has no responsible user, with the
\* stored id if the store has one for its user, and with the default otherwise.
C14_UserCache ==
    /\ [](\A i \in 1..Len(calls) :
             calls[i].call \in {"get_users", "ensure_user"} =>
                /\ calls[i].arg # NoUser
                /\ ~Truthy(calls[i].seen))
    /\ [](\A u \in UserIds :
             /\ Cardinality({i \in 1..Len(calls) :
                               /\ calls[i].call = "ensure_user" /\ calls[i].arg = u
                               /\ calls[i].result = "ok"}) <= 1
             /\ (\E i \in 1..Len(calls) :
                    /\ calls[i].call = "ensure_user" /\ calls[i].arg = u
                    /\ calls[i].result = "ok") => userMap[u] = OpenUserId(u))
    /\ [][Len(log') = Len(log) + 1 =>
             LET t == Head(queue)
                 sent == log'[Len(log')].payload.assignee
             IN  /\ assignee[t] = NoUser => (sent = default_user_id /\ pc = "task")
                 /\ (assignee[t] # NoUser /\ userMap[assignee[t]] # None) =>
                        sent = userMap[assignee[t]]
                 /\ (assignee[t] # NoUser /\ userMap[assignee[t]] = None) =>
                        (sent = default_user_id /\ pc = "resolved")
         ]_vars

\* In a second run both tasks of u1 have been written with the id that a
\* single get_users and a single ensure_user produced.
C14_Witness ==
    /\ runs = 2 /\ Len(log) = 2
    /\ log[1].payload.assignee = OpenUserId("u1") /\ log[2].payload.assignee = OpenUserId("u1")
    /\ Cardinality({i \in 1..Len(calls) : calls[i].call = "get_users"}) = 1
    /\ Cardinality({i \in 1..Len(calls) : calls[i].call = "ensure_user"}) = 1

\* C15: whatever runs came before, no comment of a task is posted twice, and a
\* comment whose key has an id in the store is passed over: no call is made,
\* the comment counter and the comment table stay as they are.
C15_CommentOnce ==
    /\ [](\A t \in SourceIds, c \in CommentIds : OkCalls("create_comment", t, c) <= 1)
    /\ [][(CommentTurn /\ Truthy(commentMap[comment_key])) =>
             /\ calls' = calls
             /\ stats'.comments = stats.comments
             /\ commentMap' = commentMap
             /\ idx' = idx + 1
         ]_vars

\* A second run has completed after a first one had posted the three comments:
\* it updated both tasks of p1 and counted no comment.
C15_Witness ==
    /\ runs = 2 /\ pc = "idle" /\ outcome = "ok" /\ ~dryRun
    /\ returned.value["p1"].updated = 2 /\ returned.value["p1"].comments = 0
    /\ Cardinality({i \in 1..Len(calls) : calls[i].call = "create_comment"
                                          /\ calls[i].result = "ok"}) = 3

\* C16: the keys of two comments with the same comment id under two tasks
\* differ, and a comment that has not been posted for its task is not passed
\* over, whatever is stored for the same comment id under another task: the
\* step taken for it is a create_comment call for that task and comment.
C16_KeysPerTask ==
    /\ [](\A t1, t2 \in SourceIds, c \in CommentIds :
             t1 # t2 => CommentKey(t1, c) # CommentKey(t2, c))
    /\ [][(CommentTurn /\ OkCalls("create_comment", Head(queue), comments[Head(queue)][idx]) = 0) =>
             /\ CallStep("create_comment")
             /\ calls'[Len(calls')].task = Head(queue)
             /\ calls'[Len(calls')].arg = comments[Head(queue)][idx]
         ]_vars

\* Comment c1 of task 1 is in the store and comment c1 of task 2 has just
\* been posted.
C16_Witness ==
    /\ Truthy(commentMap[CommentKey("1", "c1")])
    /\ OkCalls("create_comment", "1", "c1") = 1
    /\ calls[Len(calls)] = [Call("create_comment", "2", "c1", "ok", None)
                                EXCEPT !.to = taskMap["2"]]
    /\ Truthy(commentMap[CommentKey("2", "c1")])

\* The attachments of the source system with this id.
SizeOf(file_id) ==
    (CHOOSE f \in UNION {Elems(files[t]) : t \in SourceIds} : f.id = file_id).size

NameOf(file_id) ==
    (CHOOSE f \in UNION {Elems(files[t]) : t \in SourceIds} : f.id = file_id).filename

\* C17: no attachment larger than attachment_max_mb * 1024 * 1024 bytes is
\* ever downloaded or uploaded or has a row in the attachment table; the step
\* taken for such an attachment changes nothing and moves on to the next one.
C17_SizeCeiling ==
    /\ [](\A i \in 1..Len(calls) :
             calls[i].call \in {"download_file", "upload_attachment"} =>
                SizeOf(calls[i].arg) <= attachment_max_mb * 1024 * 1024)
    /\ [](\A f \in FileIds :
             SizeOf(f) > attachment_max_mb * 1024 * 1024 => attachMap[f] = None)
    /\ [][(AttachmentTurn /\ attachment.size > attachment_max_mb * 1024 * 1024) =>
             /\ idx' = idx + 1 /\ pc' = "attachments"
             /\ UNCHANGED <<calls, tmpFiles, attachMap, stats, outcome>>
         ]_vars

\* The loop is past the oversized first attachment of task 1 and has
\* transferred the second, whose size is exactly the limit.
C17_Witness ==
    /\ pc = "attachments" /\ Head(queue) = "1" /\ idx = 3
    /\ attachMap["f1"] = None /\ Truthy(attachMap["f2"])
    /\ calls[Len(calls)] = [Call("upload_attachment", "1", "f2", "ok", None)
                                EXCEPT !.to = taskMap["1"]]

\* The calls that transferred, or tried to transfer, the file of that name.
TransfersOf(name) ==
    {i \in 1..Len(calls) : /\ calls[i].call \in {"download_file", "upload_attachment"}
                           /\ NameOf(calls[i].arg) = name}

\* C18: outside the upload itself tmp_dir holds no file that was downloaded: a
\* file found there was left by a download that failed and nothing was done
\* with it since. The step that ends an upload removes the file; if the upload
\* succeeded the attachment has its row, if it failed no row was written and
\* the run ends with the error.
C18_TempFileRemoved ==
    /\ [](pc # "upload" =>
             \A name \in tmpFiles :
                \E i \in TransfersOf(name) :
                   /\ calls[i].call = "download_file" /\ calls[i].result = "error"
                   /\ \A j \in TransfersOf(name) : j <= i)
    /\ [][pc = "upload" =>
             /\ CallStep("upload_attachment")
             /\ attachment.filename \notin tmpFiles'
             /\ IF calls'[Len(calls')].result = "ok"
                THEN Truthy(attachMap'[attachment.id]) /\ pc' = "attachments"
                ELSE attachMap' = attachMap /\ pc' = "idle" /\ outcome' = "error"
         ]_vars

\* The upload of the downloaded file has failed: the run has ended with the
\* error, the file is gone and the attachment has no row.
C18_Witness ==
    /\ calls # <<>>
    /\ calls[Len(calls)] = [Call("upload_attachment", "1", "f2", "error", None)
                                EXCEPT !.to = taskMap["1"]]
    /\ outcome = "error" /\ pc = "idle"
    /\ tmpFiles = {} /\ attachMap["f2"] = None

\* The mapping a set of rows holds: which key of which table is bound to which id.
MappingOf(rs) == {<<r.table, r.key, r.openproject_id>> : r \in rs}

\* The latest call on the store was made by this step.
StoreStep(op) == storeOps' = storeOps + 1 /\ storeOp'.op = op

\* C19: under any sequence of put and get calls every table holds at most one
\* row per key and a get returns the value of the latest put on that table
\* and key (None if there was none); repeating a put, now or later, leaves the
\* mapping as it is; a get changes neither the rows nor the watermarks.
C19_PutGet ==
    /\ [](\A table \in Tables, key \in StoreKeys :
             /\ Cardinality(RowsOf(rows, table, key)) <= 1
             /\ Rows_get(rows, table, key) = lastPut[<<table, key>>].value)
    /\ [](storeOp.op = "get" => storeOp.value = lastPut[<<storeOp.table, storeOp.key>>].value)
    /\ [][ /\ StoreStep("put") =>
                \A now \in clock'..MaxClock :
                   MappingOf(Rows_upsert(rows', storeOp'.table, storeOp'.key,
                                         storeOp'.value, now)) = MappingOf(rows')
           /\ StoreStep("get") => rows' = rows /\ watermark' = watermark
         ]_vars

\* A key was put twice and the get that followed returned the second value.
C19_Witness ==
    /\ storeOp.op = "get"
    /\ lastPut[<<storeOp.table, storeOp.key>>].puts = 2
    /\ storeOp.value = 2
    /\ \E r \in rows : r.table = storeOp.table /\ r.key = storeOp.key /\ r.synced_at = 1

\* C20: a put on one table leaves the rows of the other three tables and every
\* watermark as they were; one key bound to 1 in one table and to 2 in another
\* reads back as 1 and as 2; setting a project's watermark leaves every mapping
\* row and the other projects' watermarks as they were.
C20_Independent ==
    /\ [](\A key \in StoreKeys, t1, t2 \in Tables :
             (lastPut[<<t1, key>>].value = 1 /\ lastPut[<<t2, key>>].value = 2) =>
                (Rows_get(rows, t1, key) = 1 /\ Rows_get(rows, t2, key) = 2))
    /\ [][ /\ StoreStep("put") =>
                /\ {r \in rows' : r.table # storeOp'.table} = {r \in rows : r.table # storeOp'.table}
                /\ watermark' = watermark
           /\ StoreStep("set") =>
                /\ rows' = rows
                /\ \A q \in ProjectIds \ {storeOp'.key} : watermark'[q] = watermark[q]
         ]_vars

\* Key 1, bound to 1 among the tasks, has just been bound to 2 among the users.
C20_Witness ==
    /\ Rows_get(rows, "tasks", "1") = 1 /\ Rows_get(rows, "users", "1") = 2
    /\ storeOp.op = "put" /\ storeOp.table = "users"

\* The parent of task_id inside the batch, NoParent when there is none.
Up(task_id) ==
    IF task_id \in Elems(batch) /\ parent[task_id] \in Elems(batch)
    THEN parent[task_id] ELSE NoParent

\* The batch holds a parent cycle confined to it: a task that is its own
\* parent, or a chain of two or three tasks that leads back to its start.
HasInnerCycle ==
    \E t \in Elems(batch) : Up(t) = t \/ Up(Up(t)) = t \/ Up(Up(Up(t))) = t

\* C21 as amended: the traversal of every batch returns, a batch with a parent
\* cycle confined to it or with a self-parented task included. A task is marked
\* visited before its parent is visited, so a task met again returns at once:
\* the calls of visit never nest deeper than the number of tasks plus one and
\* the recursion limit is never met.
C21_TraversalReturns ==
    /\ <>(pc = "ordered")
    /\ [](Len(stack) <= Len(batch) + 1 /\ pc # "overflow")

\* C21 as stated: for a batch with a parent cycle confined to it the traversal
\* never returns an ordering.
C21_CycleNeverReturns == HasInnerCycle => pc # "ordered"

\* The traversal of a batch with a parent cycle inside it has returned.
C21_Witness == HasInnerCycle /\ pc = "ordered" /\ Len(ordered) >= 1

\* C25: for every batch and every shape of parent links (forest, parent outside
\* the batch, self-parent, cycle) the sequence _order_tasks returns is a
\* permutation of the batch: every task of the batch once, no other task. It is
\* the sequence the operator order_tasks computes.
C25_Permutation ==
    pc = "ordered" =>
        /\ Len(ordered) = Len(batch)
        /\ Elems(ordered) = Elems(batch)
        /\ \A i, j \in 1..Len(ordered) : ordered[i] = ordered[j] => i = j
        /\ ordered = order_tasks(batch)

\* A batch of three tasks, one its own parent, one below a parent outside the
\* batch, has been ordered.
C25_Witness ==
    /\ pc = "ordered"
    /\ Len(batch) = 3
    /\ \E t \in Elems(batch) : parent[t] = t
    /\ \E t \in Elems(batch) : parent[t] = ExtParent

\* The step leaves the store and the target as they were and ends the run with
\* an error: no task received, no target call, no mapping, no watermark.
AbortsUntouched ==
    /\ pc' = "idle" /\ outcome' = "error"
    /\ batch' = batch /\ raw' = raw
    /\ log' = log /\ created' = created /\ calls' = calls
    /\ taskMap' = taskMap /\ userMap' = userMap
    /\ commentMap' = commentMap /\ attachMap' = attachMap
    /\ watermark' = watermark

C23_LinkIffSupplied ==
    pc = "built" =>
        /\ built.subject = given.task
        /\ built.parent # None <=> given.parent # None
        /\ built.assignee # None <=> given.assignee # None
        /\ given.parent # None => built.parent = given.parent
        /\ given.assignee # None => built.assignee = given.assignee

\* C24: every "already synced?" decision depends only on whether the key has a
\* record in the store, for every stored id including 0. A task with a record
\* is updated, not created; for a comment, an attachment or a user with a
\* record no call is made.
C24_PresenceDecides ==
    [][/\ (pc \in {"task", "resolved"} /\ queue # <<>> /\ taskMap[Head(queue)] # None)
            => created' = created
       /\ (CommentTurn /\ commentMap[comment_key] # None)
            => calls' = calls /\ commentMap' = commentMap
       /\ (AttachmentTurn /\ attachMap[attachment.id] # None)
            => calls' = calls /\ attachMap' = attachMap
       /\ (pc = "task" /\ queue # <<>> /\ assignee[Head(queue)] # NoUser
             /\ userMap[assignee[Head(queue)]] # None /\ Len(calls') > Len(calls))
            => calls'[Len(calls')].call \notin {"get_users", "ensure_user"}]_vars

\* The source listed a task of the batch more than once.
ListedTwice == \E i, j \in 1..Len(raw) : i < j /\ raw[i].id = raw[j].id

\* C26: in a completed non-dry run of a project every distinct task id of the
\* fetched batch causes exactly one target write, also when the source lists
\* an id more than once across pages, and the write carries the last record
\* fetched for the id.
C26_OneWritePerId ==
    /\ \A t \in SourceIds : Cardinality(WritesOf(t)) <= 1
    /\ (pc = "task" /\ queue = <<>> /\ ~dryRun) =>
          \A t \in Elems(batch) :
              /\ Cardinality(WritesOf(t)) = 1
              /\ \A i \in 1..Len(log), j \in 1..Len(raw) :
                    (log[i].task = t /\ raw[j].id = t
                        /\ \A k \in (j + 1)..Len(raw) : raw[k].id # t)
                    => log[i].rev = raw[j].rev

\* The tasks of a batch in which a task was listed twice have been written.
C26_Witness ==
    /\ pc = "task" /\ queue = <<>> /\ ~dryRun
    /\ ListedTwice
    /\ Len(batch) = 2 /\ Len(raw) = 3
    /\ \E i \in 1..Len(log) : log[i].rev = 2

\* The keys of a namespace that the step gives a record.
AddedComments == {k \in CommentKeys : commentMap[k] = None /\ commentMap'[k] # None}

AddedAttachments == {f \in FileIds : attachMap[f] = None /\ attachMap'[f] # None}

AddedTasks == {t \in SourceIds : taskMap[t] = None /\ taskMap'[t] # None}

\* The statistics _sync_project hands over for the project it has finished.
HandedOver ==
    IF pc' = "idle" THEN returned'.value[Projects[cur]] ELSE results'[Projects[cur]]

\* C27: when all tasks of a project's batch are processed, created + updated +
\* skipped is the number of distinct task ids of the batch; in a non-dry run
\* skipped is 0 and created is the number of tasks given a mapping during the
\* project. While a project is processed every step raises created, comments
\* and attachments by the number of task, comment and attachment mappings it
\* adds, starting from zero at the fetch. These statistics are what the run
\* returns for the project.
C27_StatsAccounting ==
    /\ []((pc = "task" /\ queue = <<>>) =>
            /\ stats.created + stats.updated + stats.skipped = Len(batch)
            /\ ~dryRun => stats.skipped = 0
            /\ ~dryRun => stats.created =
                 Cardinality({t \in Elems(batch) : t \notin mappedAtStart /\ taskMap[t] # None}))
    /\ [][/\ pc \notin {"idle", "project"} =>
               /\ stats'.created - stats.created = Cardinality(AddedTasks)
               /\ stats'.comments - stats.comments = Cardinality(AddedComments)
               /\ stats'.attachments - stats.attachments = Cardinality(AddedAttachments)
          /\ (pc = "project" /\ pc' = "task") => stats' = ZeroStats
          /\ (pc = "task" /\ queue = <<>>) => HandedOver = stats]_vars

\* A non-dry run has completed and returned, for project p1, two tasks created
\* with three comments and one attachment; a second run has updated both.
C27_Witness ==
    /\ pc = "idle" /\ outcome = "ok" /\ ~dryRun /\ runs = 2
    /\ returned.has
    /\ returned.value["p1"].updated = 2 /\ returned.value["p1"].created = 0
    /\ Cardinality({k \in CommentKeys : commentMap[k] # None}) = 3
    /\ attachMap["f2"] # None

\* The step posts a comment or uploads an attachment, with or without success.
PostStep ==
    /\ Len(calls') = Len(calls) + 1
    /\ calls'[Len(calls')].call \in {"create_comment", "upload_attachment"}

\* C28: a comment is posted or an attachment uploaded only when the owning
\* task has been written to the target in this run and has its mapping in the
\* store, and it is posted to the work package mapped to that task. A failure
\* while posting leaves the task mapping in place; a task with a mapping is
\* updated by a later run, never created again.
C28_TaskBeforeItems ==
    /\ [](\A i \in 1..Len(calls) :
             calls[i].call \in {"create_comment", "upload_attachment"} =>
                 /\ taskMap[calls[i].task] # None
                 /\ calls[i].to = taskMap[calls[i].task])
    /\ [](\A t \in SourceIds : Creates(t) <= 1)
    /\ [][/\ PostStep =>
               /\ taskMap[Head(queue)] # None
               /\ taskMap' = taskMap
               /\ \E i \in 1..Len(log) : log[i].task = Head(queue)
               /\ calls'[Len(calls')].task = Head(queue)
          /\ (pc \in {"comments", "attachments", "upload"} /\ pc' = "idle") =>
               taskMap' = taskMap /\ taskMap[Head(queue)] # None
          /\ (pc \in {"task", "resolved"} /\ queue # <<>> /\ taskMap[Head(queue)] # None) =>
               created' = created]_vars

\* The first run failed while posting a comment of task 2; the second run has
\* updated task 2, posted the comment to its work package and created nothing.
C28_Witness ==
    /\ runs = 2
    /\ Creates("2") = 1 /\ Len(created) = 2
    /\ \E i \in 1..Len(calls) :
          /\ calls[i].call = "create_comment" /\ calls[i].task = "2"
          /\ calls[i].result = "error"
          /\ \E j \in (i + 1)..Len(calls) :
                /\ calls[j].call = "create_comment" /\ calls[j].task = "2"
                /\ calls[j].result = "ok" /\ calls[j].to = taskMap["2"]
    /\ \E i \in 1..Len(log) : log[i].task = "2" /\ log[i].op = "update"

\* The successful calls of that name that were made for the key.
Succeeded(name, key) ==
    {i \in 1..Len(calls) : /\ calls[i].call = name /\ calls[i].result = "ok"
                           /\ key = IF name = "create_comment"
                                    THEN CommentKey(calls[i].task, calls[i].arg)
                                    ELSE <<calls[i].arg>>}

\* C29: a key has a record in the task, comment, attachment or user namespace
\* only if create_work_package, create_comment, upload_attachment or
\* ensure_user completed successfully for it before; a step in which a call
\* fails with an error writes no mapping.
C29_MappingAfterSuccess ==
    /\ [](/\ \A t \in SourceIds : taskMap[t] # None => Creates(t) >= 1
          /\ taskMap[ExtParent] = None
          /\ \A k \in CommentKeys : commentMap[k] # None => Succeeded("create_comment", k) # {}
          /\ \A f \in FileIds : attachMap[f] # None => Succeeded("upload_attachment", <<f>>) # {}
          /\ \A u \in UserIds : userMap[u] # None => Succeeded("ensure_user", <<u>>) # {})
    /\ [][(pc # "idle" /\ pc' = "idle" /\ outcome' = "error") =>
             /\ taskMap' = taskMap /\ userMap' = userMap
             /\ commentMap' = commentMap /\ attachMap' = attachMap]_vars

\* Every namespace holds a record, and the run has just ended with the failure
\* of a call that posts a comment: that comment has no record.
C29_Witness ==
    /\ pc = "idle" /\ outcome = "error"
    /\ calls # <<>>
    /\ calls[Len(calls)].call = "create_comment" /\ calls[Len(calls)].result = "error"
    /\ commentMap[CommentKey(calls[Len(calls)].task, calls[Len(calls)].arg)] = None
    /\ taskMap["1"] # None /\ taskMap["2"] # None
    /\ userMap["u1"] # None
    /\ attachMap["f2"] # None
    /\ commentMap[CommentKey("1", "c1")] # None

\* The writes this run made for tasks of the project.
WritesIn(project_id) == {i \in 1..Len(log) : ProjectOf(log[i].task) = project_id}

\* C30: the projects are processed in the order of the configuration: a
\* project is fetched only when every project before it has been fetched and
\* finished. When an error in project k has ended the run, every project
\* before k has its watermark written by this run and the mappings of its
\* writes committed, and for every project after k no page was requested, no
\* target write was made and its watermark and mappings are as they were when
\* the run started.
C30_ProjectOrder ==
    /\ \A i \in 1..Len(Projects) :
          /\ Projects[i] \in requested => i <= cur
          /\ fetchedAt[Projects[i]] # None => i <= cur
          /\ i < cur => /\ fetchedAt[Projects[i]] # None
                        /\ watermark[Projects[i]] # None
                        /\ watermark[Projects[i]] >= fetchedAt[Projects[i]]
                        /\ \A e \in WritesIn(Projects[i]) : taskMap[log[e].task] = log[e].id
          /\ i > cur => WritesIn(Projects[i]) = {}
    /\ (pc = "idle" /\ outcome = "error") =>
          \A i \in (cur + 1)..Len(Projects) :
              /\ Projects[i] \notin requested
              /\ fetchedAt[Projects[i]] = None
              /\ WritesIn(Projects[i]) = {}
              /\ watermark[Projects[i]] = wmAtStart[Projects[i]]
              /\ \A t \in SourceIds :
                    ProjectOf(t) = Projects[i] => (taskMap[t] # None <=> t \in mappedAtStart)

\* A second run has failed in project p1 after a write: project p2 still has
\* the watermark and the mapping of the first run, older than the failure.
C30_Witness ==
    /\ pc = "idle" /\ outcome = "error" /\ cur = 1 /\ runs = 2 /\ ~dryRun
    /\ log # <<>>
    /\ fetchedAt["p1"] # None /\ fetchedAt["p2"] = None
    /\ watermark["p2"] # None /\ watermark["p2"] < fetchedAt["p1"]
    /\ watermark["p2"] = wmAtStart["p2"]
    /\ taskMap["4"] # None

\* The run in progress or just ended is a non-dry incremental_sync without
\* since that follows a completed dry run.
AfterDryRun(project_id) ==
    /\ runs = 2 /\ ~dryRun /\ mode = "incremental" /\ since = None
    /\ prev.dry /\ prev.outcome = "ok"

\* C31: the step that finishes a project writes the project's watermark, the
\* moment of that step, in a dry run as in any other. A non-dry
\* incremental_sync without since that follows a dry run therefore fetches
\* from the watermark of the dry run: every task it fetches or writes was
\* updated after that watermark, and a task unchanged since has no write and
\* no mapping.
C31_DryRunMovesWatermark ==
    /\ [](\A p \in ProjectIds : AfterDryRun(p) =>
             /\ wmAtStart[p] # None /\ mappedAtStart = {}
             /\ (pc = "task" /\ Projects[cur] = p) =>
                   \A t \in Elems(batch) : src[t] > wmAtStart[p]
             /\ \A i \in 1..Len(log) :
                   ProjectOf(log[i].task) = p => src[log[i].task] > wmAtStart[p]
             /\ \A t \in SourceIds :
                   (ProjectOf(t) = p /\ src[t] # None /\ src[t] <= wmAtStart[p]) =>
                       taskMap[t] = None /\ WritesOf(t) = {})
    /\ [][(pc = "task" /\ queue = <<>> /\ pc' # pc) =>
             /\ watermark'[Projects[cur]] = clock
             /\ \A p \in ProjectIds \ {Projects[cur]} : watermark'[p] = watermark[p]]_vars

\* A dry run listed tasks 1 and 2 and left its watermark; the non-dry
\* incremental run after it has completed, having written only task 2, which
\* was changed in between: task 1 is in the source and has no work package.
C31_Witness ==
    /\ AfterDryRun("p1") /\ AfterDryRun("p2")
    /\ pc = "idle" /\ outcome = "ok"
    /\ src["1"] # None /\ src["1"] <= wmAtStart["p1"] /\ taskMap["1"] = None
    /\ src["2"] > wmAtStart["p1"] /\ taskMap["2"] # None
    /\ Len(log) = 1

====
